---- MODULE Spec2Model ----
(***************************************************************************)
(* Cross-process shared-memory layer of the gravatar service               *)
(* (app/shared_memory): segment initialisation under the ".init" file      *)
(* lock, the log and auth rings, the log counter and the settings blob,    *)
(* the boot-time and shutdown scalars, the PID roster with its start-up    *)
(* barrier, and the close/unlink of segments at shutdown.                  *)
(* Every store operation is a process walking through the statements of    *)
(* its Python function; a FileLock acquisition either succeeds (lock free) *)
(* or runs into its timeout (lock held by another process).                *)
(***************************************************************************)
EXTENDS Integers, Sequences, FiniteSets, TLC

(* ------------------------------ bounds -------------------------------- *)

\* number of worker processes
NumProcs == 2

\* SHARED_MEMORY_CONFIG["logs_counter"]["MAX_VALUE"] (2_000_000_000), scaled
MAX_VALUE == 6

\* SHARED_MEMORY_CONFIG[ring]["MAX_BUFFER_SIZE"] (1000), scaled
MAX_BUFFER_SIZE == 2

\* SHARED_MEMORY_CONFIG["settings"]["SIZE"] (64 KiB), scaled
SETTINGS_SIZE == 3

\* number of ring operations started in one behaviour beyond the capacity
ExtraOps == 1

\* number of settings operations started in one behaviour
MaxBlobOps == 4

\* timeout of log_pids (10 s) in poll intervals of 0.05 s (200), scaled
BARRIER_TIMEOUT == 2

\* number of scalar reads started in one behaviour
MaxLifeOps == 2

\* number of log lines issued and counter reads started in one behaviour
MaxLogCalls == 4

\* depth to which logging calls made inside a store function are followed
MaxNest == 2

\* AUTH_CONFIG["max_attempts"] (5), scaled
max_attempts == 2

\* AUTH_CONFIG["window_seconds"] (600), scaled
window_seconds == 1

\* AUTH_CONFIG["lockout_time"] (600), scaled
lockout_time == 1

\* width of the message field (1300), scaled
MessageWidth == 4

\* width of every other field of a record, scaled
FieldWidth == 2

\* CONF["ENTRY_SIZES"]["priv_bytes"] (4096) and ["pub_bytes"] (1024), scaled
PRIV_BYTES == 2
PUB_BYTES == 1

\* CRYPTO_RSA_CONFIG["key_rotation_period"] (300 s), scaled
key_rotation_period == 1

\* number of key pairs and of crypto calls started in one behaviour
NumKeys == 2
MaxKeyOps == 3

\* number of log streams opened in one behaviour
MaxStreams == 1

\* number of lines logged while log streams run
MaxRecords == 3

\* number of workers started anew in one behaviour
MaxRespawns == 2

\* number of client addresses that send login requests
NumIps == 2

\* number of login requests started in one behaviour
MaxLogins == 3

\* last second of the clock
MaxTime == 3

\* longest message, in characters, handed to _shorten_message
MaxChars == 3

\* longest suffix, in characters, handed to _shorten_message
MaxSuffix == 2

\* largest max_len handed to _shorten_message
MaxWidth == 6

\* number of values a settings key is set to
NumValues == 2

\* number of settings reads and writes started in one behaviour
MaxConfOps == 3

(* ------------------------- program constants -------------------------- *)

\* a loop that goes round once more
SIX_RETRIES == 5 + 1

\* for i in range(5) in shm_initialize
INIT_RETRIES == 5

\* struct size of one log record: 19+3+20+25+5+4+3+1300
LOG_ENTRY_SIZE == 1379

\* struct size of one auth record: 39+16+64+1+16
AUTH_ENTRY_SIZE == 136

(* ------------------------------ universe ------------------------------ *)

Procs == 1..NumProcs
NoProc == 0

\* Python's None as a return value or a handle
None == -1

RingNames == {"logs", "auth"}
Regions == {"logs_counter", "logs", "auth", "settings"}

\* the scalar regions and the roster
ScalarRegions == {"boot_time", "shutdown"}
AllRegions == Regions \cup ScalarRegions \cup {"pids"}

Min(a, b) == IF a <= b THEN a ELSE b

VARIABLES
    seg,        \* OS table of named segments: 0 = no such name, else instance
    initLock,   \* holder of the "<name>.init" file lock, per region
    dataLock,   \* holder of the region's data file lock (module-level LOCK)
    pc,         \* position of each process inside its current function
    op,         \* the top-level operation a process is executing
    tries,      \* loop variable i of shm_initialize
    hnd,        \* hnd[p].shm: handle of the operation, hnd[p].ctr: of inc_logs_counter
    creator,    \* is_creator as returned by the last shm_initialize of p
    exc,        \* exception leaving the current function ("none" if none)
    ret,        \* value returned by the last finished operation
    arg,        \* argument of the running operation
    counter,    \* bytes 0..3 of the logs_counter segment
    lvalue,     \* local `value` of inc_logs_counter / get_logs_counter
    ring,       \* header and slots of the logs and auth segments
    lcount,     \* local `count` of a ring operation
    lnext,      \* local `next_idx` of a ring operation
    blob,       \* header and body of the settings segment
    stored,     \* history: per ring, the records written, in write order
    okAppends,  \* history: per ring, ids of the appends that attached and returned normally
    incs,       \* history: number of counter writes performed
    incOk,      \* history: inc_logs_counter calls that attached and returned normally
    written,    \* history: (mtime, dict) of the last completed settings write
    nOps,       \* number of operations started
    life,       \* lifespan() locals: (shm_x, is_creator_x) per region
    gaveUp,     \* history: (process, region) whose start-up used up range(5)
    made,       \* OS: number of segment instances created so far, per name
    scalar,     \* first word of each instance of the boot_time and shutdown segments
    roster,     \* words of the pids segment: word 0 = count, word k = k-th pid
    waited,     \* log_pids: time.monotonic() - start_time, in poll intervals
    all_pids,   \* log_pids: local all_pids
    is_leader,  \* log_pids: local is_leader
    regs,       \* history: (pid, returned count) of the completed register_pid calls
    closed,     \* (process, region) whose lifespan handle went through shm_cleanup
    handlerOn,  \* a LogHandler is among the handlers of the process's root logger
    frames,     \* calls of add_log_to_shm suspended in a logging call, outermost first
    periods,    \* history: data-lock timeouts waited out during the current logging call
    failed,     \* history: what add_log_to_shm raised into the outermost emit
    clock,      \* int(time.time()) as last read by a request
    flow,       \* auth_login_flow: client_ip, now, the credentials' validity, position
    cut,        \* _shorten_message: its arguments, locals and result
    file,       \* settings.yml: modification time and content
    cache,      \* version stamp and payload of the settings segment
    cfg,        \* the settings call of a process: position and locals
    cfgLock,    \* holder of the "settings.yml.lock" file lock
    packed,     \* _pack_log_entry / _pack_attempt_entry: one field and its bytes
    crypto,     \* the entry held by the crypto segment
    keyLock,    \* holder of the data file lock of the crypto segment
    kc,         \* the crypto call of a process: position, arguments and locals
    minted,     \* history: (rot_time, key) of the entries written by set_keys
    client      \* client_data and the position of the log stream of a process

vars == <<seg, initLock, dataLock, pc, op, tries, hnd, creator, exc, ret, arg,
          counter, lvalue, ring, lcount, lnext, blob, stored, okAppends, incs,
          incOk, written, nOps, life, gaveUp, made, scalar, roster, waited,
          all_pids, is_leader, regs, closed, handlerOn, frames, periods, failed,
          clock, flow, cut, file, cache, cfg, cfgLock, packed,
          crypto, keyLock, kc, minted, client>>

procVars == <<pc, op, tries, hnd, creator, exc, ret, arg>>
memVars == <<counter, ring, blob>>
localVars == <<lvalue, lcount, lnext>>
histVars == <<stored, okAppends, incs, incOk, written, nOps>>
lifeVars == <<life, gaveUp>>
osVars == <<made, scalar, roster>>
pidVars == <<waited, all_pids, is_leader, regs>>
emitVars == <<handlerOn, frames, periods, failed>>
guardVars == <<clock, flow>>
confVars == <<file, cache, cfg, cfgLock>>
keyVars == <<crypto, keyLock, kc, minted>>
lateVars == <<packed, keyVars, client>>
appVars == <<guardVars, cut, confVars, lateVars>>
extVars == <<osVars, pidVars, closed, emitVars, appVars>>

(* --------------------------- fresh segments --------------------------- *)

\* a slot of a ring: declared size and packed record (0 = zero bytes)
ZeroRec == [id |-> 0, ts |-> 0]
ZeroSlot == [size |-> 0, data |-> ZeroRec]

\* shared_memory.SharedMemory(create=True) maps zero-filled memory
ZeroRing == [count |-> 0, next_idx |-> 0,
             slots |-> [i \in 0..(MAX_BUFFER_SIZE - 1) |-> ZeroSlot]]

ZeroBlob == [mtime |-> 0, size |-> 0,
             data |-> [i \in 1..SETTINGS_SIZE |-> 0]]

\* the pids segment holds a count word and one word per process
ZeroRoster == [i \in 0..NumProcs |-> 0]

ZeroHnd == [shm |-> None, ctr |-> None]

(* ------------------------------ FileLock ------------------------------ *)

\* a FileLock that excludes nobody
LockIgnored(l) == TRUE

\* FileLock.acquire succeeds only while no other process holds the file
LockFree(l) == l = NoProc

\* resume points of add_log_to_shm that lie inside its `with LOCK:`
InsideWith == {"inc_init", "inc_giveup", "inc_ret"}

\* a suspended add_log_to_shm of process p is inside `with LOCK:`; the
\* module-level FileLock object counts the acquisitions of its process
HoldsLogsLock(p) ==
    \E i \in 1..Len(frames[p]) : frames[p][i].at \in InsideWith

\* FileLock.release: the file is unlocked when the counter drops to zero
ReleaseLock(p, r) == IF r = "logs" /\ HoldsLogsLock(p) THEN p ELSE NoProc

(* --------------------------- shm_initialize --------------------------- *)

\* the memory of region r after SharedMemory(name=r, create=True)
ZeroRegion(r) ==
    /\ counter' = IF r = "logs_counter" THEN 0 ELSE counter
    /\ ring' = IF r \in RingNames THEN [ring EXCEPT ![r] = ZeroRing] ELSE ring
    /\ blob' = IF r = "settings" THEN ZeroBlob ELSE blob
    /\ scalar' = IF r \in ScalarRegions
                 THEN [scalar EXCEPT ![r][made[r] + 1] = 0] ELSE scalar
    /\ roster' = IF r = "pids" THEN ZeroRoster ELSE roster

\* `with lock:` entered (lock = FileLock("<name>.init", timeout=1))
ShmInitAcquire(p, here, inside, r) ==
    /\ pc[p] = here
    /\ LockFree(initLock[r])
    /\ initLock' = [initLock EXCEPT ![r] = p]
    /\ pc' = [pc EXCEPT ![p] = inside]
    /\ UNCHANGED <<seg, dataLock, op, tries, hnd, creator, exc, ret, arg>>
    /\ UNCHANGED <<memVars, localVars, histVars, lifeVars, extVars>>

\* `except Timeout: time.sleep(0.1); continue`; when range(5) is used up
\* the function returns (None, False)
ShmInitTimeout(p, here, r, which, giveUp) ==
    /\ pc[p] = here
    /\ ~LockFree(initLock[r])
    /\ IF tries[p] + 1 < INIT_RETRIES
       THEN /\ tries' = [tries EXCEPT ![p] = @ + 1]
            /\ UNCHANGED <<pc, hnd, creator>>
       ELSE /\ tries' = [tries EXCEPT ![p] = INIT_RETRIES]
            /\ hnd' = [hnd EXCEPT ![p][which] = None]
            /\ creator' = [creator EXCEPT ![p] = FALSE]
            /\ pc' = [pc EXCEPT ![p] = giveUp]
    /\ UNCHANGED <<seg, initLock, dataLock, op, exc, ret, arg>>
    /\ UNCHANGED <<memVars, localVars, histVars, lifeVars, extVars>>

\* an attach that reports the segment as created by the caller
AttachAsCreator(inst) == [shm |-> inst, creator |-> TRUE]

\* shm = SharedMemory(name=name, create=False); return shm, False
AttachResult(inst) == [shm |-> inst, creator |-> FALSE]

\* first statement inside `with lock:`: attach to the existing segment and
\* return; on FileNotFoundError return (None, False) unless create is set
ShmInitAttach(p, inside, r, create, which, pcOk, pcNone, pcCreate) ==
    /\ pc[p] = inside
    /\ IF seg[r] # 0
       THEN /\ hnd' = [hnd EXCEPT ![p][which] = AttachResult(seg[r]).shm]
            /\ creator' = [creator EXCEPT ![p] = AttachResult(seg[r]).creator]
            /\ pc' = [pc EXCEPT ![p] = pcOk]
            /\ initLock' = [initLock EXCEPT ![r] = NoProc]
            /\ tries' = [tries EXCEPT ![p] = 0]
       ELSE IF ~create
       THEN /\ hnd' = [hnd EXCEPT ![p][which] = None]
            /\ creator' = [creator EXCEPT ![p] = FALSE]
            /\ pc' = [pc EXCEPT ![p] = pcNone]
            /\ initLock' = [initLock EXCEPT ![r] = NoProc]
            /\ tries' = [tries EXCEPT ![p] = 0]
       ELSE /\ pc' = [pc EXCEPT ![p] = pcCreate]
            /\ UNCHANGED <<hnd, creator, initLock, tries>>
    /\ UNCHANGED <<seg, dataLock, op, exc, ret, arg>>
    /\ UNCHANGED <<memVars, localVars, histVars, lifeVars, extVars>>

\* shm = SharedMemory(name=name, create=True, size=size); return shm, True.
\* The name is created exclusively: if it exists by now the call raises
\* FileExistsError, which `except Exception` turns into the next iteration.
ShmInitCreate(p, at, r, which, pcOk, pcRetry, giveUp) ==
    /\ pc[p] = at
    /\ IF seg[r] = 0
       THEN /\ seg' = [seg EXCEPT ![r] = made[r] + 1]
            /\ made' = [made EXCEPT ![r] = @ + 1]
            /\ ZeroRegion(r)
            /\ hnd' = [hnd EXCEPT ![p][which] = made[r] + 1]
            /\ creator' = [creator EXCEPT ![p] = TRUE]
            /\ pc' = [pc EXCEPT ![p] = pcOk]
            /\ tries' = [tries EXCEPT ![p] = 0]
       ELSE /\ UNCHANGED <<seg, memVars, osVars>>
            /\ IF tries[p] + 1 < INIT_RETRIES
               THEN /\ tries' = [tries EXCEPT ![p] = @ + 1]
                    /\ pc' = [pc EXCEPT ![p] = pcRetry]
                    /\ UNCHANGED <<hnd, creator>>
               ELSE /\ tries' = [tries EXCEPT ![p] = INIT_RETRIES]
                    /\ hnd' = [hnd EXCEPT ![p][which] = None]
                    /\ creator' = [creator EXCEPT ![p] = FALSE]
                    /\ pc' = [pc EXCEPT ![p] = giveUp]
    /\ initLock' = [initLock EXCEPT ![r] = NoProc]
    /\ UNCHANGED <<dataLock, op, exc, ret, arg>>
    /\ UNCHANGED <<localVars, histVars, lifeVars, pidVars, closed, emitVars, appVars>>

(* ------------------------- lifespan: start-up -------------------------- *)

\* the modelled regions in the order lifespan() initialises them
BootOrder == <<"logs_counter", "logs", "settings", "auth">>

\* the region of the initialize_*_shm() call a starting process is in
BootRegion(p) == BootOrder[arg[p]]

BootInitAcquire(p) == ShmInitAcquire(p, "boot_init", "boot_init_in", BootRegion(p))
BootInitTimeout(p) == ShmInitTimeout(p, "boot_init", BootRegion(p), "shm", "boot_got")
BootInitAttach(p) ==
    ShmInitAttach(p, "boot_init_in", BootRegion(p), TRUE, "shm",
                  "boot_got", "boot_got", "boot_create")
BootInitCreate(p) ==
    ShmInitCreate(p, "boot_create", BootRegion(p), "shm",
                  "boot_got", "boot_init", "boot_got")

\* shm_x, is_creator_x = initialize_x_shm(); on to the next region
BootGot(p) ==
    /\ pc[p] = "boot_got"
    /\ life' = [life EXCEPT ![p][BootRegion(p)] =
                    [shm |-> hnd[p].shm, creator |-> creator[p]]]
    /\ gaveUp' = IF tries[p] = INIT_RETRIES
                 THEN gaveUp \cup {<<p, BootRegion(p)>>}
                 ELSE gaveUp
    /\ tries' = [tries EXCEPT ![p] = 0]
    /\ hnd' = [hnd EXCEPT ![p] = ZeroHnd]
    /\ creator' = [creator EXCEPT ![p] = FALSE]
    /\ IF arg[p] < Len(BootOrder)
       THEN /\ arg' = [arg EXCEPT ![p] = @ + 1]
            /\ pc' = [pc EXCEPT ![p] = "boot_init"]
       ELSE /\ arg' = [arg EXCEPT ![p] = 0]
            /\ pc' = [pc EXCEPT ![p] = "idle"]
    /\ UNCHANGED <<seg, initLock, dataLock, op, exc, ret>>
    /\ UNCHANGED <<memVars, localVars, histVars, extVars>>

(* ------------------------- logs_counter store ------------------------- *)

\* an increment without the wrap-around
IncNoWrap(v) == v + 1

\* value = (value + 1) % CONF["MAX_VALUE"]
IncValue(v) == (v + 1) % MAX_VALUE

\* a caller enters inc_logs_counter()
IncCall(p) ==
    /\ pc[p] = "idle"
    /\ nOps < MAX_VALUE + 6
    /\ nOps' = nOps + 1
    /\ pc' = [pc EXCEPT ![p] = "inc_init"]
    /\ op' = [op EXCEPT ![p] = "inc"]
    /\ UNCHANGED <<seg, initLock, dataLock, tries, hnd, creator, exc, ret, arg>>
    /\ UNCHANGED <<memVars, localVars, stored, okAppends, incs, incOk, written, lifeVars, extVars>>

\* shm, _ = initialize_logs_counter_shm(False); if shm is None: return
IncInitAcquire(p) == ShmInitAcquire(p, "inc_init", "inc_init_in", "logs_counter")
IncInitTimeout(p) ==
    /\ ~handlerOn[p]
    /\ ShmInitTimeout(p, "inc_init", "logs_counter", "ctr", "inc_ret")
IncInitAttach(p) ==
    ShmInitAttach(p, "inc_init_in", "logs_counter", FALSE, "ctr",
                  "inc_lock", "inc_ret", "inc_ret")

\* `with LOCK:` entered
IncLock(p) ==
    /\ pc[p] = "inc_lock"
    /\ LockFree(dataLock["logs_counter"])
    /\ dataLock' = [dataLock EXCEPT !["logs_counter"] = p]
    /\ pc' = [pc EXCEPT ![p] = "inc_read"]
    /\ UNCHANGED <<seg, initLock, op, tries, hnd, creator, exc, ret, arg>>
    /\ UNCHANGED <<memVars, localVars, histVars, lifeVars, extVars>>

\* `except Timeout:` logs and raises TimeoutError; no LogHandler takes
\* the line
IncLockTimeout(p) ==
    /\ pc[p] = "inc_lock"
    /\ ~handlerOn[p]
    /\ ~LockFree(dataLock["logs_counter"])
    /\ exc' = [exc EXCEPT ![p] = "TimeoutError"]
    /\ pc' = [pc EXCEPT ![p] = "inc_ret"]
    /\ UNCHANGED <<seg, initLock, dataLock, op, tries, hnd, creator, ret, arg>>
    /\ UNCHANGED <<memVars, localVars, histVars, lifeVars, extVars>>

\* value = shm_read_int(buf, 0)
IncRead(p) ==
    /\ pc[p] = "inc_read"
    /\ lvalue' = [lvalue EXCEPT ![p] = counter]
    /\ pc' = [pc EXCEPT ![p] = "inc_write"]
    /\ UNCHANGED <<seg, initLock, dataLock, op, tries, hnd, creator, exc, ret, arg>>
    /\ UNCHANGED <<memVars, lcount, lnext, histVars, lifeVars, extVars>>

\* value = (value + 1) % MAX_VALUE; shm_write_int(buf, 0, value)
IncWrite(p) ==
    /\ pc[p] = "inc_write"
    /\ lvalue' = [lvalue EXCEPT ![p] = IncValue(lvalue[p])]
    /\ counter' = IncValue(lvalue[p])
    /\ incs' = incs + 1
    /\ pc' = [pc EXCEPT ![p] = "inc_unlock"]
    /\ UNCHANGED <<seg, initLock, dataLock, op, tries, hnd, creator, exc, ret, arg>>
    /\ UNCHANGED <<ring, blob, lcount, lnext, stored, okAppends, incOk, written, nOps, lifeVars, extVars>>

\* the value the function hands back: it has no return statement
IncResult(v) == None

\* end of `with LOCK:` and of the function
IncUnlock(p) ==
    /\ pc[p] = "inc_unlock"
    /\ dataLock' = [dataLock EXCEPT !["logs_counter"] = NoProc]
    /\ ret' = [ret EXCEPT ![p] = IncResult(lvalue[p])]
    /\ incOk' = incOk + 1
    /\ pc' = [pc EXCEPT ![p] = "inc_ret"]
    /\ UNCHANGED <<seg, initLock, op, tries, hnd, creator, exc, arg>>
    /\ UNCHANGED <<memVars, localVars, stored, okAppends, incs, written, nOps, lifeVars, extVars>>

\* the frame of a finished top-level call is dropped: its locals are gone
Return(p, from) ==
    /\ pc[p] = from
    /\ pc' = [pc EXCEPT ![p] = "idle"]
    /\ op' = [op EXCEPT ![p] = "none"]
    /\ hnd' = [hnd EXCEPT ![p] = ZeroHnd]
    /\ creator' = [creator EXCEPT ![p] = FALSE]
    /\ exc' = [exc EXCEPT ![p] = "none"]
    /\ ret' = [ret EXCEPT ![p] = None]
    /\ arg' = [arg EXCEPT ![p] = 0]
    /\ lvalue' = [lvalue EXCEPT ![p] = 0]
    /\ lcount' = [lcount EXCEPT ![p] = 0]
    /\ lnext' = [lnext EXCEPT ![p] = 0]
    /\ tries' = [tries EXCEPT ![p] = 0]
    /\ UNCHANGED <<seg, initLock, dataLock>>
    /\ UNCHANGED <<memVars, histVars, lifeVars, extVars>>

\* inc_logs_counter() called on its own returns to its caller
IncReturn(p) ==
    /\ op[p] = "inc"
    /\ Return(p, "inc_ret")

\* a log stream starts polling: shm_logs_counter, _ =
\* initialize_logs_counter_shm(False); get_logs_counter(shm_logs_counter)
GetCounterCall(p) ==
    /\ pc[p] = "idle"
    /\ pc' = [pc EXCEPT ![p] = "get_init"]
    /\ op' = [op EXCEPT ![p] = "get_counter"]
    /\ UNCHANGED <<seg, initLock, dataLock, tries, hnd, creator, exc, ret, arg>>
    /\ UNCHANGED <<memVars, localVars, histVars, lifeVars, extVars>>

GetCounterInitAcquire(p) ==
    ShmInitAcquire(p, "get_init", "get_init_in", "logs_counter")
GetCounterInitTimeout(p) ==
    /\ ~handlerOn[p]
    /\ ShmInitTimeout(p, "get_init", "logs_counter", "shm", "get_cold")
GetCounterInitAttach(p) ==
    ShmInitAttach(p, "get_init_in", "logs_counter", FALSE, "shm",
                  "get_lock", "get_cold", "get_cold")

\* if shm is None: return 0
GetCounterCold(p) ==
    /\ pc[p] = "get_cold"
    /\ ret' = [ret EXCEPT ![p] = 0]
    /\ pc' = [pc EXCEPT ![p] = "get_ret"]
    /\ UNCHANGED <<seg, initLock, dataLock, op, tries, hnd, creator, exc, arg>>
    /\ UNCHANGED <<memVars, localVars, histVars, lifeVars, extVars>>

\* `with LOCK:` entered
GetCounterLock(p) ==
    /\ pc[p] = "get_lock"
    /\ LockFree(dataLock["logs_counter"])
    /\ dataLock' = [dataLock EXCEPT !["logs_counter"] = p]
    /\ pc' = [pc EXCEPT ![p] = "get_read"]
    /\ UNCHANGED <<seg, initLock, op, tries, hnd, creator, exc, ret, arg>>
    /\ UNCHANGED <<memVars, localVars, histVars, lifeVars, extVars>>

\* `except Timeout:` logs and raises TimeoutError; no LogHandler takes
\* the line
GetCounterLockTimeout(p) ==
    /\ pc[p] = "get_lock"
    /\ ~handlerOn[p]
    /\ ~LockFree(dataLock["logs_counter"])
    /\ exc' = [exc EXCEPT ![p] = "TimeoutError"]
    /\ pc' = [pc EXCEPT ![p] = "get_ret"]
    /\ UNCHANGED <<seg, initLock, dataLock, op, tries, hnd, creator, ret, arg>>
    /\ UNCHANGED <<memVars, localVars, histVars, lifeVars, extVars>>

\* value = shm_read_int(buf, 0); return value (the lock is released on the way out)
GetCounterRead(p) ==
    /\ pc[p] = "get_read"
    /\ ret' = [ret EXCEPT ![p] = counter]
    /\ dataLock' = [dataLock EXCEPT !["logs_counter"] = NoProc]
    /\ pc' = [pc EXCEPT ![p] = "get_ret"]
    /\ UNCHANGED <<seg, initLock, op, tries, hnd, creator, exc, arg>>
    /\ UNCHANGED <<memVars, localVars, histVars, lifeVars, extVars>>

GetCounterReturn(p) == Return(p, "get_ret")

(* ------------------------ logs and auth rings ------------------------- *)

\* ENTRY_SIZE = ENTRY_STRUCT.size of the ring's module
EntrySize(r) == IF r = "logs" THEN LOG_ENTRY_SIZE ELSE AUTH_ENTRY_SIZE

\* the ring a ring operation works on
RingOf(p) == IF op[p] \in {"add_log", "get_logs"} THEN "logs" ELSE "auth"

\* int(time.time()) at the n-th call of a behaviour: the clock ticks once
Now(n) == IF n <= 1 THEN 1 ELSE 2

\* a caller enters add_log_to_shm(log_entry); the entry is the id-th one
AddLogCall(p) ==
    /\ pc[p] = "idle"
    /\ nOps < MAX_BUFFER_SIZE + ExtraOps
    /\ nOps' = nOps + 1
    /\ arg' = [arg EXCEPT ![p] = [id |-> nOps + 1, ts |-> 0]]
    /\ pc' = [pc EXCEPT ![p] = "ap_init"]
    /\ op' = [op EXCEPT ![p] = "add_log"]
    /\ UNCHANGED <<seg, initLock, dataLock, tries, hnd, creator, exc, ret>>
    /\ UNCHANGED <<memVars, localVars, stored, okAppends, incs, incOk, written, lifeVars, extVars>>

\* a caller enters add_auth_attempt_to_shm(ip, username, timestamp, ...)
AddAuthCall(p) ==
    /\ pc[p] = "idle"
    /\ nOps < MAX_BUFFER_SIZE + ExtraOps
    /\ nOps' = nOps + 1
    /\ arg' = [arg EXCEPT ![p] = [id |-> nOps + 1, ts |-> Now(nOps + 1)]]
    /\ pc' = [pc EXCEPT ![p] = "ap_init"]
    /\ op' = [op EXCEPT ![p] = "add_auth"]
    /\ UNCHANGED <<seg, initLock, dataLock, tries, hnd, creator, exc, ret>>
    /\ UNCHANGED <<memVars, localVars, stored, okAppends, incs, incOk, written, lifeVars, extVars>>

\* shm, _ = initialize_x_shm(False); if not shm or shm.buf is None: return
ApInitAcquire(p) == ShmInitAcquire(p, "ap_init", "ap_init_in", RingOf(p))
ApInitTimeout(p) == ShmInitTimeout(p, "ap_init", RingOf(p), "shm", "ap_ret")
ApInitAttach(p) ==
    ShmInitAttach(p, "ap_init_in", RingOf(p), FALSE, "shm",
                  "ap_lock", "ap_ret", "ap_ret")

\* `with LOCK:` entered; add_log_to_shm goes on with inc_logs_counter()
ApLock(p) ==
    /\ pc[p] = "ap_lock"
    /\ LockFree(dataLock[RingOf(p)]) \/ dataLock[RingOf(p)] = p
    /\ dataLock' = [dataLock EXCEPT ![RingOf(p)] = p]
    /\ pc' = [pc EXCEPT ![p] = IF op[p] = "add_log" THEN "inc_init" ELSE "ap_hdr"]
    /\ UNCHANGED <<seg, initLock, op, tries, hnd, creator, exc, ret, arg>>
    /\ UNCHANGED <<memVars, localVars, histVars, lifeVars, extVars>>

\* `except Timeout:` logs and raises TimeoutError; no LogHandler takes
\* the line
ApLockTimeout(p) ==
    /\ pc[p] = "ap_lock"
    /\ ~handlerOn[p]
    /\ ~LockFree(dataLock[RingOf(p)])
    /\ exc' = [exc EXCEPT ![p] = "TimeoutError"]
    /\ pc' = [pc EXCEPT ![p] = "ap_ret"]
    /\ UNCHANGED <<seg, initLock, dataLock, op, tries, hnd, creator, ret, arg>>
    /\ UNCHANGED <<memVars, localVars, histVars, lifeVars, extVars>>

\* what add_log_to_shm does with an exception e that leaves the body of its
\* `with LOCK:`: inc_logs_counter raises the builtin TimeoutError, which
\* `except Timeout` (filelock.Timeout) does not match; `except Exception`
\* logs it and the function returns None
AddLogHandles(e) == "none"

\* inc_logs_counter() has returned into add_log_to_shm
AddLogAfterInc(p) ==
    /\ pc[p] = "inc_ret"
    /\ op[p] = "add_log"
    /\ exc[p] # "none" => ~handlerOn[p]
    /\ IF exc[p] # "none"
       THEN /\ dataLock' = [dataLock EXCEPT !["logs"] = ReleaseLock(p, "logs")]
            /\ exc' = [exc EXCEPT ![p] = AddLogHandles(exc[p])]
            /\ okAppends' = IF AddLogHandles(exc[p]) = "none"
                            THEN [okAppends EXCEPT !["logs"] = @ \cup {arg[p].id}]
                            ELSE okAppends
            /\ pc' = [pc EXCEPT ![p] = "ap_ret"]
       ELSE /\ pc' = [pc EXCEPT ![p] = "ap_hdr"]
            /\ UNCHANGED <<dataLock, exc, okAppends>>
    /\ UNCHANGED <<seg, initLock, op, tries, hnd, creator, ret, arg>>
    /\ UNCHANGED <<memVars, localVars, stored, incs, incOk, written, nOps, lifeVars, extVars>>

\* count = shm_read_int(buf, 0); next_idx = shm_read_int(buf, 4)
ApHdr(p) ==
    /\ pc[p] = "ap_hdr"
    /\ lcount' = [lcount EXCEPT ![p] = ring[RingOf(p)].count]
    /\ lnext' = [lnext EXCEPT ![p] = ring[RingOf(p)].next_idx]
    /\ pc' = [pc EXCEPT ![p] = "ap_slot"]
    /\ UNCHANGED <<seg, initLock, dataLock, op, tries, hnd, creator, exc, ret, arg>>
    /\ UNCHANGED <<memVars, lvalue, histVars, lifeVars, extVars>>

\* shm_write_int(buf, offset, ENTRY_SIZE); shm_write_bytes(buf, offset + 4, packed)
ApSlot(p) ==
    /\ pc[p] = "ap_slot"
    /\ pc' = [pc EXCEPT ![p] = "ap_count"]
    /\ ring' = [ring EXCEPT ![RingOf(p)].slots[lnext[p]] =
                    [size |-> EntrySize(RingOf(p)), data |-> arg[p]]]
    /\ stored' = [stored EXCEPT ![RingOf(p)] = Append(@, arg[p])]
    /\ UNCHANGED <<seg, initLock, dataLock, op, tries, hnd, creator, exc, ret, arg>>
    /\ UNCHANGED <<counter, blob, localVars, okAppends, incs, incOk, written, nOps, lifeVars, extVars>>

\* next_idx = (next_idx + 1) % MAX_BUFFER_SIZE
NextIdx(i) == (i + 1) % MAX_BUFFER_SIZE

\* an append that lets the count grow past the capacity
NextCountUncapped(c) == c + 1

\* count = min(count + 1, MAX_BUFFER_SIZE)
NextCount(c) == Min(c + 1, MAX_BUFFER_SIZE)

\* shm_write_int(buf, 0, count)
ApCount(p) ==
    /\ pc[p] = "ap_count"
    /\ ring' = [ring EXCEPT ![RingOf(p)].count = NextCount(lcount[p])]
    /\ pc' = [pc EXCEPT ![p] = "ap_next"]
    /\ UNCHANGED <<seg, initLock, dataLock, op, tries, hnd, creator, exc, ret, arg>>
    /\ UNCHANGED <<counter, blob, localVars, histVars, lifeVars, extVars>>

\* shm_write_int(buf, 4, next_idx); end of `with LOCK:` and of the function
ApNext(p) ==
    /\ pc[p] = "ap_next"
    /\ ring' = [ring EXCEPT ![RingOf(p)].next_idx = NextIdx(lnext[p])]
    /\ dataLock' = [dataLock EXCEPT ![RingOf(p)] = ReleaseLock(p, RingOf(p))]
    /\ okAppends' = [okAppends EXCEPT ![RingOf(p)] = @ \cup {arg[p].id}]
    /\ pc' = [pc EXCEPT ![p] = "ap_ret"]
    /\ UNCHANGED <<seg, initLock, op, tries, hnd, creator, exc, ret, arg>>
    /\ UNCHANGED <<counter, blob, localVars, stored, incs, incOk, written, nOps, lifeVars, extVars>>

ApReturn(p) == Return(p, "ap_ret")

\* a caller enters get_logs_from_shm(limit)
GetLogsCall(p) ==
    /\ pc[p] = "idle"
    /\ \E n \in 0..(MAX_BUFFER_SIZE + 1) : arg' = [arg EXCEPT ![p] = n]
    /\ pc' = [pc EXCEPT ![p] = "rg_init"]
    /\ op' = [op EXCEPT ![p] = "get_logs"]
    /\ UNCHANGED <<seg, initLock, dataLock, tries, hnd, creator, exc, ret>>
    /\ UNCHANGED <<memVars, localVars, histVars, lifeVars, extVars>>

\* a caller enters get_auth_attempts_from_shm(since_time)
GetAuthCall(p) ==
    /\ pc[p] = "idle"
    /\ \E t \in {0, Now(2)} : arg' = [arg EXCEPT ![p] = t]
    /\ pc' = [pc EXCEPT ![p] = "rg_init"]
    /\ op' = [op EXCEPT ![p] = "get_auth"]
    /\ UNCHANGED <<seg, initLock, dataLock, tries, hnd, creator, exc, ret>>
    /\ UNCHANGED <<memVars, localVars, histVars, lifeVars, extVars>>

\* shm, _ = initialize_x_shm(False); if not shm or shm.buf is None: return []
RgInitAcquire(p) == ShmInitAcquire(p, "rg_init", "rg_init_in", RingOf(p))
RgInitTimeout(p) == ShmInitTimeout(p, "rg_init", RingOf(p), "shm", "rg_cold")
RgInitAttach(p) ==
    ShmInitAttach(p, "rg_init_in", RingOf(p), FALSE, "shm",
                  "rg_lock", "rg_cold", "rg_cold")

RgCold(p) ==
    /\ pc[p] = "rg_cold"
    /\ ret' = [ret EXCEPT ![p] = <<>>]
    /\ pc' = [pc EXCEPT ![p] = "rg_ret"]
    /\ UNCHANGED <<seg, initLock, dataLock, op, tries, hnd, creator, exc, arg>>
    /\ UNCHANGED <<memVars, localVars, histVars, lifeVars, extVars>>

\* `with LOCK:` entered
RgLock(p) ==
    /\ pc[p] = "rg_lock"
    /\ LockFree(dataLock[RingOf(p)])
    /\ dataLock' = [dataLock EXCEPT ![RingOf(p)] = p]
    /\ pc' = [pc EXCEPT ![p] = "rg_read"]
    /\ UNCHANGED <<seg, initLock, op, tries, hnd, creator, exc, ret, arg>>
    /\ UNCHANGED <<memVars, localVars, histVars, lifeVars, extVars>>

\* `except Timeout:` logs and raises TimeoutError
RgLockTimeout(p) ==
    /\ pc[p] = "rg_lock"
    /\ ~LockFree(dataLock[RingOf(p)])
    /\ exc' = [exc EXCEPT ![p] = "TimeoutError"]
    /\ pc' = [pc EXCEPT ![p] = "rg_ret"]
    /\ UNCHANGED <<seg, initLock, dataLock, op, tries, hnd, creator, ret, arg>>
    /\ UNCHANGED <<memVars, localVars, histVars, lifeVars, extVars>>

\* a read that trusts the limit of the caller
NumLogsUncapped(count, limit) == limit

\* num_logs = min(int(count), int(limit))
NumLogs(count, limit) == Min(count, limit)

\* a read starting one slot late
StartIdxOffByOne(next_idx, num) == (next_idx - num + 1) % MAX_BUFFER_SIZE

\* start_idx = (next_idx - num) % MAX_BUFFER_SIZE
StartIdx(next_idx, num) == (next_idx - num) % MAX_BUFFER_SIZE

\* a loop that ends at the first slot of a wrong declared size
ReadSlotsUntilBad(rg, num, size) ==
    LET start == (rg.next_idx - num) % MAX_BUFFER_SIZE
        slotAt(i) == rg.slots[(start + i - 1) % MAX_BUFFER_SIZE]
        bad == {i \in 1..num : slotAt(i).size # size}
        stop == IF bad = {} THEN num ELSE (CHOOSE i \in bad : \A k \in bad : i <= k) - 1
    IN  IF num <= 0 THEN <<>> ELSE [i \in 1..stop |-> slotAt(i).data]

\* the loop `for i in range(num)`: slot (start_idx + i) % MAX_BUFFER_SIZE is
\* decoded unless its declared size differs from ENTRY_SIZE
ReadSlots(rg, num, size) ==
    LET start == StartIdx(rg.next_idx, num)
        slotAt(i) == rg.slots[(start + i - 1) % MAX_BUFFER_SIZE]
        all == [i \in 1..num |-> slotAt(i)]
        good(s) == s.size = size
    IN  IF num <= 0
        THEN <<>>
        ELSE [i \in 1..Len(SelectSeq(all, good)) |-> SelectSeq(all, good)[i].data]

\* if since_time: attempts = [a for a in attempts if a["timestamp"] >= since_time]
SinceFilter(recs, since) ==
    LET keep(a) == a.ts >= since
    IN  IF since # 0 THEN SelectSeq(recs, keep) ELSE recs

\* body of `with LOCK:` of get_logs_from_shm(limit)
ReadLogs(rg, limit) == ReadSlots(rg, NumLogs(rg.count, limit), LOG_ENTRY_SIZE)

\* body of `with LOCK:` of get_auth_attempts_from_shm(since_time)
ReadAuth(rg, since) ==
    SinceFilter(ReadSlots(rg, Min(rg.count, MAX_BUFFER_SIZE), AUTH_ENTRY_SIZE), since)

RgRead(p) ==
    /\ pc[p] = "rg_read"
    /\ ret' = [ret EXCEPT ![p] = IF op[p] = "get_logs"
                                 THEN ReadLogs(ring["logs"], arg[p])
                                 ELSE ReadAuth(ring["auth"], arg[p])]
    /\ dataLock' = [dataLock EXCEPT ![RingOf(p)] = NoProc]
    /\ pc' = [pc EXCEPT ![p] = "rg_ret"]
    /\ UNCHANGED <<seg, initLock, op, tries, hnd, creator, exc, arg>>
    /\ UNCHANGED <<memVars, localVars, histVars, lifeVars, extVars>>

RgReturn(p) == Return(p, "rg_ret")

(* --------------------------- settings store --------------------------- *)

\* the dicts a caller may pass; dict 0 is {}
Dicts == 0..(SETTINGS_SIZE - 1)
EmptyDict == 0

\* the stamps a caller may pass (int(mtime); 0 stands for "no file")
Mtimes == 0..2

\* json.dumps(data_dict, ensure_ascii=False).encode("utf-8"): "{}" has two
\* bytes, bigger dicts have more; the bytes identify the dict
JsonDumps(d) == [i \in 1..(d + 2) |-> d + 1]

\* a write without the capacity check
NeverTooBig(bytes) == FALSE

\* len(data_bytes) > CONF["SIZE"]
TooBig(bytes) == Len(bytes) > SETTINGS_SIZE

\* shm_write_bytes(buf, HEADER_SIZE, data_bytes): a slice assignment
WriteBytes(data, bytes) ==
    [i \in 1..SETTINGS_SIZE |-> IF i <= Len(bytes) THEN bytes[i] ELSE data[i]]

\* shm_read_bytes(buf, HEADER_SIZE, size)
ReadBytes(data, size) == [i \in 1..size |-> data[i]]

\* json.loads succeeds on exactly the texts json.dumps produces
Decodable(bytes) == \E d \in Dicts : JsonDumps(d) = bytes
JsonLoads(bytes) == CHOOSE d \in Dicts : JsonDumps(d) = bytes

\* if size > CONF["SIZE"] or size <= 0
BadSize(size) == size > SETTINGS_SIZE \/ size <= 0

\* a caller enters write_settings_to_shm(mtime, data_dict)
WrCall(p) ==
    /\ pc[p] = "idle"
    /\ nOps < MaxBlobOps
    /\ nOps' = nOps + 1
    /\ \E m \in Mtimes, d \in Dicts : arg' = [arg EXCEPT ![p] = <<m, d>>]
    /\ pc' = [pc EXCEPT ![p] = "wr_init"]
    /\ op' = [op EXCEPT ![p] = "write_settings"]
    /\ UNCHANGED <<seg, initLock, dataLock, tries, hnd, creator, exc, ret>>
    /\ UNCHANGED <<memVars, localVars, stored, okAppends, incs, incOk, written, lifeVars, extVars>>

\* shm, _ = initialize_settings_shm(False); if shm is None: return
WrInitAcquire(p) == ShmInitAcquire(p, "wr_init", "wr_init_in", "settings")
WrInitTimeout(p) == ShmInitTimeout(p, "wr_init", "settings", "shm", "wr_ret")
WrInitAttach(p) ==
    ShmInitAttach(p, "wr_init_in", "settings", FALSE, "shm",
                  "wr_lock", "wr_ret", "wr_ret")

\* `with LOCK:` entered
WrLock(p) ==
    /\ pc[p] = "wr_lock"
    /\ LockFree(dataLock["settings"])
    /\ dataLock' = [dataLock EXCEPT !["settings"] = p]
    /\ pc' = [pc EXCEPT ![p] = "wr_check"]
    /\ UNCHANGED <<seg, initLock, op, tries, hnd, creator, exc, ret, arg>>
    /\ UNCHANGED <<memVars, localVars, histVars, lifeVars, extVars>>

\* `except Timeout:` logs and raises TimeoutError
WrLockTimeout(p) ==
    /\ pc[p] = "wr_lock"
    /\ ~LockFree(dataLock["settings"])
    /\ exc' = [exc EXCEPT ![p] = "TimeoutError"]
    /\ pc' = [pc EXCEPT ![p] = "wr_ret"]
    /\ UNCHANGED <<seg, initLock, dataLock, op, tries, hnd, creator, ret, arg>>
    /\ UNCHANGED <<memVars, localVars, histVars, lifeVars, extVars>>

\* what the size check hands to the caller when the data is too big:
\* logger.error(...) and a bare return
TooBigOutcome == [exc |-> "none", ret |-> None]

\* data_bytes = json.dumps(...).encode(); if too big: log and return
WrCheck(p) ==
    /\ pc[p] = "wr_check"
    /\ IF TooBig(JsonDumps(arg[p][2]))
       THEN /\ dataLock' = [dataLock EXCEPT !["settings"] = NoProc]
            /\ exc' = [exc EXCEPT ![p] = TooBigOutcome.exc]
            /\ ret' = [ret EXCEPT ![p] = TooBigOutcome.ret]
            /\ pc' = [pc EXCEPT ![p] = "wr_ret"]
       ELSE /\ pc' = [pc EXCEPT ![p] = "wr_mtime"]
            /\ UNCHANGED <<dataLock, exc, ret>>
    /\ UNCHANGED <<seg, initLock, op, tries, hnd, creator, arg>>
    /\ UNCHANGED <<memVars, localVars, histVars, lifeVars, extVars>>

\* shm_write_int(shm.buf, 0, int(mtime))
WrMtime(p) ==
    /\ pc[p] = "wr_mtime"
    /\ blob' = [blob EXCEPT !.mtime = arg[p][1]]
    /\ pc' = [pc EXCEPT ![p] = "wr_size"]
    /\ UNCHANGED <<seg, initLock, dataLock, op, tries, hnd, creator, exc, ret, arg>>
    /\ UNCHANGED <<counter, ring, localVars, histVars, lifeVars, extVars>>

\* shm_write_int(shm.buf, 8, len(data_bytes))
WrSize(p) ==
    /\ pc[p] = "wr_size"
    /\ blob' = [blob EXCEPT !.size = Len(JsonDumps(arg[p][2]))]
    /\ pc' = [pc EXCEPT ![p] = "wr_bytes"]
    /\ UNCHANGED <<seg, initLock, dataLock, op, tries, hnd, creator, exc, ret, arg>>
    /\ UNCHANGED <<counter, ring, localVars, histVars, lifeVars, extVars>>

\* shm_write_bytes(shm.buf, HEADER_SIZE, data_bytes); end of `with LOCK:`
WrBytes(p) ==
    /\ pc[p] = "wr_bytes"
    /\ blob' = [blob EXCEPT !.data = WriteBytes(@, JsonDumps(arg[p][2]))]
    /\ written' = arg[p]
    /\ dataLock' = [dataLock EXCEPT !["settings"] = NoProc]
    /\ pc' = [pc EXCEPT ![p] = "wr_ret"]
    /\ UNCHANGED <<seg, initLock, op, tries, hnd, creator, exc, ret, arg>>
    /\ UNCHANGED <<counter, ring, localVars, stored, okAppends, incs, incOk, nOps, lifeVars, extVars>>

WrReturn(p) == Return(p, "wr_ret")

\* a caller enters read_settings_from_shm()
RdCall(p) ==
    /\ pc[p] = "idle"
    /\ pc' = [pc EXCEPT ![p] = "rd_init"]
    /\ op' = [op EXCEPT ![p] = "read_settings"]
    /\ UNCHANGED <<seg, initLock, dataLock, tries, hnd, creator, exc, ret, arg>>
    /\ UNCHANGED <<memVars, localVars, histVars, lifeVars, extVars>>

\* shm, _ = initialize_settings_shm(False)
RdInitAcquire(p) == ShmInitAcquire(p, "rd_init", "rd_init_in", "settings")
RdInitTimeout(p) == ShmInitTimeout(p, "rd_init", "settings", "shm", "rd_cold")
RdInitAttach(p) ==
    ShmInitAttach(p, "rd_init_in", "settings", FALSE, "shm",
                  "rd_lock", "rd_cold", "rd_cold")

\* if shm is None: return 0, {}
RdCold(p) ==
    /\ pc[p] = "rd_cold"
    /\ ret' = [ret EXCEPT ![p] = <<0, EmptyDict>>]
    /\ pc' = [pc EXCEPT ![p] = "rd_ret"]
    /\ UNCHANGED <<seg, initLock, dataLock, op, tries, hnd, creator, exc, arg>>
    /\ UNCHANGED <<memVars, localVars, histVars, lifeVars, extVars>>

\* `with LOCK:` entered
RdLock(p) ==
    /\ pc[p] = "rd_lock"
    /\ LockFree(dataLock["settings"])
    /\ dataLock' = [dataLock EXCEPT !["settings"] = p]
    /\ pc' = [pc EXCEPT ![p] = "rd_read"]
    /\ UNCHANGED <<seg, initLock, op, tries, hnd, creator, exc, ret, arg>>
    /\ UNCHANGED <<memVars, localVars, histVars, lifeVars, extVars>>

\* `except Timeout:` logs and raises TimeoutError
RdLockTimeout(p) ==
    /\ pc[p] = "rd_lock"
    /\ ~LockFree(dataLock["settings"])
    /\ exc' = [exc EXCEPT ![p] = "TimeoutError"]
    /\ pc' = [pc EXCEPT ![p] = "rd_ret"]
    /\ UNCHANGED <<seg, initLock, dataLock, op, tries, hnd, creator, ret, arg>>
    /\ UNCHANGED <<memVars, localVars, histVars, lifeVars, extVars>>

\* the body of `with LOCK:` of read_settings_from_shm: a failed json.loads
\* is only logged, so `return mtime, data` hits the unbound local `data`
ReadSettings(b) ==
    IF BadSize(b.size)
    THEN [exc |-> "none", ret |-> <<b.mtime, EmptyDict>>]
    ELSE IF Decodable(ReadBytes(b.data, b.size))
    THEN [exc |-> "none", ret |-> <<b.mtime, JsonLoads(ReadBytes(b.data, b.size))>>]
    ELSE [exc |-> "UnboundLocalError", ret |-> None]

RdRead(p) ==
    /\ pc[p] = "rd_read"
    /\ exc' = [exc EXCEPT ![p] = ReadSettings(blob).exc]
    /\ ret' = [ret EXCEPT ![p] = ReadSettings(blob).ret]
    /\ dataLock' = [dataLock EXCEPT !["settings"] = NoProc]
    /\ pc' = [pc EXCEPT ![p] = "rd_ret"]
    /\ UNCHANGED <<seg, initLock, op, tries, hnd, creator, arg>>
    /\ UNCHANGED <<memVars, localVars, histVars, lifeVars, extVars>>

RdReturn(p) == Return(p, "rd_ret")

(* ----------------------------- start states --------------------------- *)

\* every segment has been created by the lifespan start-up of some process
\* and nothing has been written to it yet
(* --------------------- PID roster and the barrier --------------------- *)

\* os.getpid() of process p (the later process has the smaller pid)
Pid(p) == 10 * (NumProcs + 1 - p)

\* settings.app_workers: the number of workers the barrier expects
total_workers == NumProcs

\* await log_pids(shm_pids) in lifespan(), once per process
LogPidsCall(p) ==
    /\ pc[p] = "idle"
    /\ op' = [op EXCEPT ![p] = "log_pids"]
    /\ pc' = [pc EXCEPT ![p] = "reg_lock"]
    /\ UNCHANGED <<seg, initLock, dataLock, tries, hnd, creator, exc, ret, arg>>
    /\ UNCHANGED <<memVars, localVars, histVars, lifeVars, extVars>>

\* register_pid: with LOCK
RegLock(p) ==
    /\ pc[p] = "reg_lock"
    /\ LockFree(dataLock["pids"])
    /\ dataLock' = [dataLock EXCEPT !["pids"] = p]
    /\ pc' = [pc EXCEPT ![p] = "reg_read"]
    /\ UNCHANGED <<seg, initLock, op, tries, hnd, creator, exc, ret, arg>>
    /\ UNCHANGED <<memVars, localVars, histVars, lifeVars, extVars>>

\* register_pid: except Timeout: raise TimeoutError, which log_pids and
\* lifespan() do not catch
RegLockTimeout(p) ==
    /\ pc[p] = "reg_lock"
    /\ ~LockFree(dataLock["pids"])
    /\ exc' = [exc EXCEPT ![p] = "TimeoutError"]
    /\ pc' = [pc EXCEPT ![p] = "lp_done"]
    /\ UNCHANGED <<seg, initLock, dataLock, op, tries, hnd, creator, ret, arg>>
    /\ UNCHANGED <<memVars, localVars, histVars, lifeVars, extVars>>

\* idx = shm_read_int(shm.buf, 0)
RegRead(p) ==
    /\ pc[p] = "reg_read"
    /\ lvalue' = [lvalue EXCEPT ![p] = roster[0]]
    /\ pc' = [pc EXCEPT ![p] = "reg_slot"]
    /\ UNCHANGED <<seg, initLock, dataLock, op, tries, hnd, creator, exc, ret, arg>>
    /\ UNCHANGED <<memVars, lcount, lnext, histVars, lifeVars, extVars>>

\* a registration into the word of the count
RegWordAtCount(idx) == idx

\* the word at byte offset (idx + 1) * 4
RegWord(idx) == idx + 1

\* number of pid words of the segment: SIZE / 4 - 1 (255), scaled
PidSlots == NumProcs

\* a buffer without an end
InBufferAlways(word) == TRUE

\* struct.pack_into("i", buf, offset, value) needs offset + 4 <= len(buf)
InBuffer(word) == word <= PidSlots

\* shm_write_int(shm.buf, (idx + 1) * 4, os.getpid()); past the end of the
\* buffer pack_into raises struct.error, which leaves `with LOCK:` and
\* register_pid (`except Exception as e: logger.error(...); raise e`)
RegSlot(p) ==
    /\ pc[p] = "reg_slot"
    /\ IF InBuffer(RegWord(lvalue[p]))
       THEN /\ roster' = [roster EXCEPT ![RegWord(lvalue[p])] = Pid(p)]
            /\ pc' = [pc EXCEPT ![p] = "reg_count"]
            /\ UNCHANGED <<dataLock, exc>>
       ELSE /\ exc' = [exc EXCEPT ![p] = "struct.error"]
            /\ dataLock' = [dataLock EXCEPT !["pids"] = NoProc]
            /\ pc' = [pc EXCEPT ![p] = "lp_done"]
            /\ UNCHANGED roster
    /\ UNCHANGED <<seg, initLock, op, tries, hnd, creator, ret, arg>>
    /\ UNCHANGED <<memVars, localVars, histVars, lifeVars>>
    /\ UNCHANGED <<made, scalar, pidVars, closed, emitVars, appVars>>

\* new_count = idx + 1; shm_write_int(shm.buf, 0, new_count); return
\* new_count; back in log_pids: start_time = time.monotonic()
RegCount(p) ==
    /\ pc[p] = "reg_count"
    /\ roster' = [roster EXCEPT ![0] = lvalue[p] + 1]
    /\ dataLock' = [dataLock EXCEPT !["pids"] = NoProc]
    /\ ret' = [ret EXCEPT ![p] = lvalue[p] + 1]
    /\ regs' = Append(regs, [pid |-> Pid(p), count |-> lvalue[p] + 1])
    /\ waited' = [waited EXCEPT ![p] = 0]
    /\ pc' = [pc EXCEPT ![p] = "poll_lock"]
    /\ UNCHANGED <<seg, initLock, op, tries, hnd, creator, exc, arg>>
    /\ UNCHANGED <<memVars, localVars, histVars, lifeVars>>
    /\ UNCHANGED <<made, scalar, all_pids, is_leader, closed, emitVars, appVars>>

\* get_all_pids: with LOCK
PollLock(p) ==
    /\ pc[p] = "poll_lock"
    /\ LockFree(dataLock["pids"])
    /\ dataLock' = [dataLock EXCEPT !["pids"] = p]
    /\ pc' = [pc EXCEPT ![p] = "poll_read"]
    /\ UNCHANGED <<seg, initLock, op, tries, hnd, creator, exc, ret, arg>>
    /\ UNCHANGED <<memVars, localVars, histVars, lifeVars, extVars>>

\* get_all_pids: except Timeout: raise TimeoutError, which leaves log_pids
PollLockTimeout(p) ==
    /\ pc[p] = "poll_lock"
    /\ ~LockFree(dataLock["pids"])
    /\ exc' = [exc EXCEPT ![p] = "TimeoutError"]
    /\ pc' = [pc EXCEPT ![p] = "lp_done"]
    /\ UNCHANGED <<seg, initLock, dataLock, op, tries, hnd, creator, ret, arg>>
    /\ UNCHANGED <<memVars, localVars, histVars, lifeVars, extVars>>

\* [shm_read_int(shm.buf, i) for i in range(4, (count + 1) * 4, 4)]
GetAllPids(rs) == [i \in 1..rs[0] |-> rs[i]]

\* all_pids = get_all_pids(shm)
PollRead(p) ==
    /\ pc[p] = "poll_read"
    /\ all_pids' = [all_pids EXCEPT ![p] = GetAllPids(roster)]
    /\ dataLock' = [dataLock EXCEPT !["pids"] = NoProc]
    /\ pc' = [pc EXCEPT ![p] = "poll_check"]
    /\ UNCHANGED <<seg, initLock, op, tries, hnd, creator, exc, ret, arg>>
    /\ UNCHANGED <<memVars, localVars, histVars, lifeVars>>
    /\ UNCHANGED <<osVars, waited, is_leader, regs, closed, emitVars, appVars>>

\* if len(all_pids) >= total_workers: break
\* if time.monotonic() - start_time > timeout: logger.warning(...); break
PollCheck(p) ==
    /\ pc[p] = "poll_check"
    /\ pc' = [pc EXCEPT ![p] =
                IF Len(all_pids[p]) >= total_workers THEN "elect"
                ELSE IF waited[p] > BARRIER_TIMEOUT THEN "elect"
                ELSE "poll_sleep"]
    /\ UNCHANGED <<seg, initLock, dataLock, op, tries, hnd, creator, exc, ret, arg>>
    /\ UNCHANGED <<memVars, localVars, histVars, lifeVars, extVars>>

\* await asyncio.sleep(0.05): one poll interval goes by
PollSleep(p) ==
    /\ pc[p] = "poll_sleep"
    /\ waited' = [waited EXCEPT ![p] = @ + 1]
    /\ pc' = [pc EXCEPT ![p] = "poll_lock"]
    /\ UNCHANGED <<seg, initLock, dataLock, op, tries, hnd, creator, exc, ret, arg>>
    /\ UNCHANGED <<memVars, localVars, histVars, lifeVars>>
    /\ UNCHANGED <<osVars, all_pids, is_leader, regs, closed, emitVars, appVars>>

\* min(all_pids) of a non-empty list
RECURSIVE SeqMin(_)
SeqMin(sq) ==
    IF Len(sq) = 1 THEN sq[1] ELSE Min(sq[1], SeqMin(Tail(sq)))

\* an election won by the first registered process
IsLeaderFirst(pids, my_pid) == pids # <<>> /\ my_pid = pids[1]

\* bool(all_pids and my_pid == min(all_pids))
IsLeader(pids, my_pid) == pids # <<>> /\ my_pid = SeqMin(pids)

\* is_leader = bool(all_pids and my_pid == min(all_pids)); log_pids returns
Elect(p) ==
    /\ pc[p] = "elect"
    /\ is_leader' = [is_leader EXCEPT ![p] = IsLeader(all_pids[p], Pid(p))]
    /\ pc' = [pc EXCEPT ![p] = "lp_done"]
    /\ UNCHANGED <<seg, initLock, dataLock, op, tries, hnd, creator, exc, ret, arg>>
    /\ UNCHANGED <<memVars, localVars, histVars, lifeVars>>
    /\ UNCHANGED <<osVars, waited, all_pids, regs, closed, emitVars, appVars>>

\* the worker in place p has ended and the server starts a new worker
\* process in its place, which runs lifespan() and log_pids on the same
\* roster
Respawn(p) ==
    /\ pc[p] = "lp_done"
    /\ nOps < MaxRespawns
    /\ nOps' = nOps + 1
    /\ pc' = [pc EXCEPT ![p] = "idle"]
    /\ op' = [op EXCEPT ![p] = "none"]
    /\ exc' = [exc EXCEPT ![p] = "none"]
    /\ ret' = [ret EXCEPT ![p] = None]
    /\ lvalue' = [lvalue EXCEPT ![p] = 0]
    /\ waited' = [waited EXCEPT ![p] = 0]
    /\ all_pids' = [all_pids EXCEPT ![p] = <<>>]
    /\ is_leader' = [is_leader EXCEPT ![p] = FALSE]
    /\ UNCHANGED <<seg, initLock, dataLock, tries, hnd, creator, arg>>
    /\ UNCHANGED <<memVars, lcount, lnext, stored, okAppends, incs, incOk, written, lifeVars>>
    /\ UNCHANGED <<osVars, regs, closed, emitVars, appVars>>

(* ------------------ lifespan of the scalar regions --------------------- *)

\* the scalar regions in the order lifespan() initialises them
LifeOrder == <<"boot_time", "shutdown">>

\* ... and in the order lifespan() cleans them up
CleanOrder == <<"shutdown", "boot_time">>

LifeRegion(p) == LifeOrder[arg[p]]
CleanRegion(p) == CleanOrder[arg[p]]

\* a worker process starts and enters lifespan()
LifeStart(p) ==
    /\ pc[p] = "off"
    /\ pc' = [pc EXCEPT ![p] = "lf_init"]
    /\ arg' = [arg EXCEPT ![p] = 1]
    /\ UNCHANGED <<seg, initLock, dataLock, op, tries, hnd, creator, exc, ret>>
    /\ UNCHANGED <<memVars, localVars, histVars, lifeVars, extVars>>

LifeInitAcquire(p) == ShmInitAcquire(p, "lf_init", "lf_init_in", LifeRegion(p))
LifeInitTimeout(p) == ShmInitTimeout(p, "lf_init", LifeRegion(p), "shm", "lf_got")
LifeInitAttach(p) ==
    ShmInitAttach(p, "lf_init_in", LifeRegion(p), TRUE, "shm",
                  "lf_got", "lf_got", "lf_create")
LifeInitCreate(p) ==
    ShmInitCreate(p, "lf_create", LifeRegion(p), "shm",
                  "lf_got", "lf_init", "lf_got")

\* shm_x, is_creator_x = initialize_x_shm(); after the last region:
\* if is_creator_boot_time: set_boot_time(shm_boot_time, time.time())
LifeGot(p) ==
    /\ pc[p] = "lf_got"
    /\ life' = [life EXCEPT ![p][LifeRegion(p)] =
                    [shm |-> hnd[p].shm, creator |-> creator[p]]]
    /\ gaveUp' = IF tries[p] = INIT_RETRIES
                 THEN gaveUp \cup {<<p, LifeRegion(p)>>}
                 ELSE gaveUp
    /\ tries' = [tries EXCEPT ![p] = 0]
    /\ hnd' = [hnd EXCEPT ![p] = ZeroHnd]
    /\ creator' = [creator EXCEPT ![p] = FALSE]
    /\ IF arg[p] < Len(LifeOrder)
       THEN /\ arg' = [arg EXCEPT ![p] = @ + 1]
            /\ pc' = [pc EXCEPT ![p] = "lf_init"]
       ELSE /\ arg' = [arg EXCEPT ![p] = 0]
            /\ pc' = [pc EXCEPT ![p] =
                        IF life'[p]["boot_time"].creator THEN "sb_lock" ELSE "idle"]
    /\ UNCHANGED <<seg, initLock, dataLock, op, exc, ret>>
    /\ UNCHANGED <<memVars, localVars, histVars, extVars>>

\* an exception leaves lifespan(): the process ends without the clean-up
\* calls; the OS drops its mappings
Crash(p, e) ==
    /\ exc' = [exc EXCEPT ![p] = e]
    /\ pc' = [pc EXCEPT ![p] = "crashed"]
    /\ closed' = closed \cup {<<p, r>> : r \in ScalarRegions}

\* set_boot_time: with LOCK
SetBootLock(p) ==
    /\ pc[p] = "sb_lock"
    /\ LockFree(dataLock["boot_time"])
    /\ dataLock' = [dataLock EXCEPT !["boot_time"] = p]
    /\ pc' = [pc EXCEPT ![p] = "sb_write"]
    /\ UNCHANGED <<seg, initLock, op, tries, hnd, creator, exc, ret, arg>>
    /\ UNCHANGED <<memVars, localVars, histVars, lifeVars, extVars>>

\* set_boot_time: except Timeout: raise TimeoutError
SetBootLockTimeout(p) ==
    /\ pc[p] = "sb_lock"
    /\ ~LockFree(dataLock["boot_time"])
    /\ Crash(p, "TimeoutError")
    /\ UNCHANGED <<seg, initLock, dataLock, op, tries, hnd, creator, ret, arg>>
    /\ UNCHANGED <<memVars, localVars, histVars, lifeVars, osVars, pidVars, emitVars, appVars>>

\* time.time() at start-up
BootStamp == 1

\* shm_write_float(shm.buf, 0, float(timestamp))
SetBootWrite(p) ==
    /\ pc[p] = "sb_write"
    /\ scalar' = [scalar EXCEPT !["boot_time"][life[p]["boot_time"].shm] = BootStamp]
    /\ dataLock' = [dataLock EXCEPT !["boot_time"] = NoProc]
    /\ pc' = [pc EXCEPT ![p] = "idle"]
    /\ UNCHANGED <<seg, initLock, op, tries, hnd, creator, exc, ret, arg>>
    /\ UNCHANGED <<memVars, localVars, histVars, lifeVars>>
    /\ UNCHANGED <<made, roster, pidVars, closed, emitVars, appVars>>

\* stream_logs / get_log_stream: shm_shutdown, _ = initialize_shutdown_shm(False)
\* followed by get_shutdown_flag(shm_shutdown)
GetShutdownCall(p) ==
    /\ pc[p] = "idle"
    /\ nOps < MaxLifeOps
    /\ nOps' = nOps + 1
    /\ op' = [op EXCEPT ![p] = "get_shutdown_flag"]
    /\ pc' = [pc EXCEPT ![p] = "gs_init"]
    /\ UNCHANGED <<seg, initLock, dataLock, tries, hnd, creator, exc, ret, arg>>
    /\ UNCHANGED <<memVars, localVars, stored, okAppends, incs, incOk, written>>
    /\ UNCHANGED <<lifeVars, extVars>>

\* the caller passes whatever initialize_shutdown_shm(False) returned
GsInitAcquire(p) == ShmInitAcquire(p, "gs_init", "gs_init_in", "shutdown")
GsInitTimeout(p) == ShmInitTimeout(p, "gs_init", "shutdown", "shm", "gs_lock")
GsInitAttach(p) ==
    ShmInitAttach(p, "gs_init_in", "shutdown", FALSE, "shm",
                  "gs_lock", "gs_lock", "gs_lock")

\* get_shutdown_flag: with LOCK
GsLock(p) ==
    /\ pc[p] = "gs_lock"
    /\ LockFree(dataLock["shutdown"])
    /\ dataLock' = [dataLock EXCEPT !["shutdown"] = p]
    /\ pc' = [pc EXCEPT ![p] = "gs_read"]
    /\ UNCHANGED <<seg, initLock, op, tries, hnd, creator, exc, ret, arg>>
    /\ UNCHANGED <<memVars, localVars, histVars, lifeVars, extVars>>

\* get_shutdown_flag: except Timeout: raise TimeoutError
GsLockTimeout(p) ==
    /\ pc[p] = "gs_lock"
    /\ ~LockFree(dataLock["shutdown"])
    /\ exc' = [exc EXCEPT ![p] = "TimeoutError"]
    /\ pc' = [pc EXCEPT ![p] = "gs_ret"]
    /\ UNCHANGED <<seg, initLock, dataLock, op, tries, hnd, creator, ret, arg>>
    /\ UNCHANGED <<memVars, localVars, histVars, lifeVars, extVars>>

\* `shm.buf` of a handle: None has no attribute buf, and `except Exception
\* as e: ...; raise e` hands the AttributeError to the caller
BufOf(h) == IF h = None THEN "AttributeError" ELSE "none"

\* return shm_read_int(shm.buf, 0)
GsRead(p) ==
    /\ pc[p] = "gs_read"
    /\ exc' = [exc EXCEPT ![p] = BufOf(hnd[p].shm)]
    /\ ret' = [ret EXCEPT ![p] =
                 IF hnd[p].shm = None THEN None
                 ELSE scalar["shutdown"][hnd[p].shm]]
    /\ dataLock' = [dataLock EXCEPT !["shutdown"] = NoProc]
    /\ pc' = [pc EXCEPT ![p] = "gs_ret"]
    /\ UNCHANGED <<seg, initLock, op, tries, hnd, creator, arg>>
    /\ UNCHANGED <<memVars, localVars, histVars, lifeVars, extVars>>

GsReturn(p) == Return(p, "gs_ret")

\* get_boot_time(): shm, _ = initialize_boot_time_shm(False)
GetBootCall(p) ==
    /\ pc[p] = "idle"
    /\ nOps < MaxLifeOps
    /\ nOps' = nOps + 1
    /\ op' = [op EXCEPT ![p] = "get_boot_time"]
    /\ pc' = [pc EXCEPT ![p] = "gb_init"]
    /\ UNCHANGED <<seg, initLock, dataLock, tries, hnd, creator, exc, ret, arg>>
    /\ UNCHANGED <<memVars, localVars, stored, okAppends, incs, incOk, written>>
    /\ UNCHANGED <<lifeVars, extVars>>

GbInitAcquire(p) == ShmInitAcquire(p, "gb_init", "gb_init_in", "boot_time")
GbInitTimeout(p) == ShmInitTimeout(p, "gb_init", "boot_time", "shm", "gb_cold")
GbInitAttach(p) ==
    ShmInitAttach(p, "gb_init_in", "boot_time", FALSE, "shm",
                  "gb_lock", "gb_cold", "gb_cold")

\* if shm is None: return 0
GbCold(p) ==
    /\ pc[p] = "gb_cold"
    /\ ret' = [ret EXCEPT ![p] = 0]
    /\ pc' = [pc EXCEPT ![p] = "gb_ret"]
    /\ UNCHANGED <<seg, initLock, dataLock, op, tries, hnd, creator, exc, arg>>
    /\ UNCHANGED <<memVars, localVars, histVars, lifeVars, extVars>>

\* get_boot_time: with LOCK
GbLock(p) ==
    /\ pc[p] = "gb_lock"
    /\ LockFree(dataLock["boot_time"])
    /\ dataLock' = [dataLock EXCEPT !["boot_time"] = p]
    /\ pc' = [pc EXCEPT ![p] = "gb_read"]
    /\ UNCHANGED <<seg, initLock, op, tries, hnd, creator, exc, ret, arg>>
    /\ UNCHANGED <<memVars, localVars, histVars, lifeVars, extVars>>

\* get_boot_time: except Timeout: raise TimeoutError
GbLockTimeout(p) ==
    /\ pc[p] = "gb_lock"
    /\ ~LockFree(dataLock["boot_time"])
    /\ exc' = [exc EXCEPT ![p] = "TimeoutError"]
    /\ pc' = [pc EXCEPT ![p] = "gb_ret"]
    /\ UNCHANGED <<seg, initLock, dataLock, op, tries, hnd, creator, ret, arg>>
    /\ UNCHANGED <<memVars, localVars, histVars, lifeVars, extVars>>

\* return shm_read_float(shm.buf, 0)
GbRead(p) ==
    /\ pc[p] = "gb_read"
    /\ ret' = [ret EXCEPT ![p] = scalar["boot_time"][hnd[p].shm]]
    /\ dataLock' = [dataLock EXCEPT !["boot_time"] = NoProc]
    /\ pc' = [pc EXCEPT ![p] = "gb_ret"]
    /\ UNCHANGED <<seg, initLock, op, tries, hnd, creator, exc, arg>>
    /\ UNCHANGED <<memVars, localVars, histVars, lifeVars, extVars>>

GbReturn(p) == Return(p, "gb_ret")

(* ------------------------ lifespan: shut-down -------------------------- *)

\* the application stops: lifespan() resumes after `yield` with
\* set_shutdown_flag(shm_shutdown, True)
LifeStop(p) ==
    /\ pc[p] = "idle"
    /\ pc' = [pc EXCEPT ![p] = "ss_lock"]
    /\ UNCHANGED <<seg, initLock, dataLock, op, tries, hnd, creator, exc, ret, arg>>
    /\ UNCHANGED <<memVars, localVars, histVars, lifeVars, extVars>>

\* set_shutdown_flag: with LOCK
SsLock(p) ==
    /\ pc[p] = "ss_lock"
    /\ LockFree(dataLock["shutdown"])
    /\ dataLock' = [dataLock EXCEPT !["shutdown"] = p]
    /\ pc' = [pc EXCEPT ![p] = "ss_write"]
    /\ UNCHANGED <<seg, initLock, op, tries, hnd, creator, exc, ret, arg>>
    /\ UNCHANGED <<memVars, localVars, histVars, lifeVars, extVars>>

\* set_shutdown_flag: except Timeout: raise TimeoutError
SsLockTimeout(p) ==
    /\ pc[p] = "ss_lock"
    /\ ~LockFree(dataLock["shutdown"])
    /\ Crash(p, "TimeoutError")
    /\ UNCHANGED <<seg, initLock, dataLock, op, tries, hnd, creator, ret, arg>>
    /\ UNCHANGED <<memVars, localVars, histVars, lifeVars, osVars, pidVars, emitVars, appVars>>

\* shm_write_int(shm.buf, 0, int(value)), then on to the clean-up calls
SsWrite(p) ==
    /\ pc[p] = "ss_write"
    /\ dataLock' = [dataLock EXCEPT !["shutdown"] = NoProc]
    /\ IF life[p]["shutdown"].shm = None
       THEN /\ Crash(p, BufOf(None))
            /\ UNCHANGED <<scalar, arg>>
       ELSE /\ scalar' = [scalar EXCEPT !["shutdown"][life[p]["shutdown"].shm] = 1]
            /\ pc' = [pc EXCEPT ![p] = "cl_close"]
            /\ arg' = [arg EXCEPT ![p] = 1]
            /\ UNCHANGED <<exc, closed>>
    /\ UNCHANGED <<seg, initLock, op, tries, hnd, creator, ret>>
    /\ UNCHANGED <<memVars, localVars, histVars, lifeVars>>
    /\ UNCHANGED <<made, roster, pidVars, emitVars, appVars>>

\* the clean-up call after the one at position i of CleanOrder
AfterClean(i) == IF i < Len(CleanOrder) THEN "cl_close" ELSE "stopped"

\* an unlink issued by every process that cleans up
UnlinkByAnyone(is_creator) == TRUE

\* if is_creator: ... shm.unlink()
UnlinkBy(is_creator) == is_creator

\* shm_cleanup: shm.close(); a None handle raises AttributeError, which the
\* outer `except Exception` logs; a creator goes on to unlink
CleanClose(p) ==
    /\ pc[p] = "cl_close"
    /\ closed' = closed \cup {<<p, CleanRegion(p)>>}
    /\ IF life[p][CleanRegion(p)].shm # None /\ UnlinkBy(life[p][CleanRegion(p)].creator)
       THEN /\ pc' = [pc EXCEPT ![p] = "cl_unlink"]
            /\ UNCHANGED arg
       ELSE /\ pc' = [pc EXCEPT ![p] = AfterClean(arg[p])]
            /\ arg' = [arg EXCEPT ![p] = IF @ < Len(CleanOrder) THEN @ + 1 ELSE 0]
    /\ UNCHANGED <<seg, initLock, dataLock, op, tries, hnd, creator, exc, ret>>
    /\ UNCHANGED <<memVars, localVars, histVars, lifeVars, osVars, pidVars, emitVars, appVars>>

\* shm.unlink() removes the name from the OS; FileNotFoundError of a name
\* that is gone is logged by the inner `except Exception`
CleanUnlink(p) ==
    /\ pc[p] = "cl_unlink"
    /\ seg' = [seg EXCEPT ![CleanRegion(p)] = 0]
    /\ pc' = [pc EXCEPT ![p] = AfterClean(arg[p])]
    /\ arg' = [arg EXCEPT ![p] = IF @ < Len(CleanOrder) THEN @ + 1 ELSE 0]
    /\ UNCHANGED <<initLock, dataLock, op, tries, hnd, creator, exc, ret>>
    /\ UNCHANGED <<memVars, localVars, histVars, lifeVars, extVars>>

(* ----------------------------- LogHandler ----------------------------- *)

\* the application, or initialize_log_handler itself, issues a logging call;
\* the record reaches LogHandler.emit, which builds log_entry and calls
\* add_log_to_shm(log_entry)
StartLogCall(p) ==
    /\ nOps < MaxLogCalls
    /\ nOps' = nOps + 1
    /\ arg' = [arg EXCEPT ![p] = [id |-> nOps + 1, ts |-> 0]]
    /\ pc' = [pc EXCEPT ![p] = "ap_init"]
    /\ op' = [op EXCEPT ![p] = "add_log"]
    /\ periods' = [periods EXCEPT ![p] = 0]
    /\ failed' = [failed EXCEPT ![p] = "none"]
    /\ UNCHANGED <<seg, initLock, dataLock, tries, hnd, creator, exc, ret>>
    /\ UNCHANGED <<memVars, localVars, stored, okAppends, incs, incOk, written>>
    /\ UNCHANGED <<lifeVars, osVars, pidVars, closed, frames, appVars>>

\* initialize_log_handler(): root_logger.addHandler(log_handler);
\* logger.info("Log handler initialized ...")
InitializeLogHandler(p) ==
    /\ pc[p] = "idle"
    /\ ~handlerOn[p]
    /\ handlerOn' = [handlerOn EXCEPT ![p] = TRUE]
    /\ StartLogCall(p)

\* logger.<level>(...) somewhere in the application while the handler is
\* installed
LogCall(p) ==
    /\ pc[p] = "idle"
    /\ handlerOn[p]
    /\ StartLogCall(p)
    /\ UNCHANGED handlerOn

\* logger.<level>(...) inside a store function while the LogHandler is
\* installed: the record goes to LogHandler.emit on the same thread, which
\* calls add_log_to_shm for it; the calling frame resumes at `resume`, with
\* exception e in flight and loop variable tr, once emit has returned. Below
\* depth MaxNest, and after MaxLogCalls lines, the emit of the line is not
\* followed.
LogLine(p, resume, e, tr) ==
    /\ handlerOn[p]
    /\ IF Len(frames[p]) < MaxNest /\ nOps < MaxLogCalls
       THEN /\ nOps' = nOps + 1
            /\ frames' = [frames EXCEPT ![p] =
                             Append(@, [at |-> resume, op |-> op[p], exc |-> e,
                                        arg |-> arg[p], hnd |-> hnd[p], tries |-> tr])]
            /\ arg' = [arg EXCEPT ![p] = [id |-> nOps + 1, ts |-> 0]]
            /\ hnd' = [hnd EXCEPT ![p] = ZeroHnd]
            /\ tries' = [tries EXCEPT ![p] = 0]
            /\ exc' = [exc EXCEPT ![p] = "none"]
            /\ pc' = [pc EXCEPT ![p] = "ap_init"]
            /\ op' = [op EXCEPT ![p] = "add_log"]
       ELSE /\ tries' = [tries EXCEPT ![p] = tr]
            /\ exc' = [exc EXCEPT ![p] = e]
            /\ pc' = [pc EXCEPT ![p] = resume]
            /\ UNCHANGED <<frames, arg, hnd, op, nOps>>
    /\ UNCHANGED <<seg, initLock, creator, ret>>
    /\ UNCHANGED <<memVars, localVars, stored, incs, incOk, written>>
    /\ UNCHANGED <<lifeVars, osVars, pidVars, closed, handlerOn, failed, appVars>>

\* add_log_to_shm: `except Timeout: logger.error(...)`, then
\* `raise TimeoutError(...)`
ApLockTimeoutLogged(p) ==
    /\ pc[p] = "ap_lock"
    /\ dataLock["logs"] \notin {NoProc, p}
    /\ periods' = [periods EXCEPT ![p] = @ + 1]
    /\ LogLine(p, "ap_ret", "TimeoutError", tries[p])
    /\ UNCHANGED <<dataLock, okAppends>>

\* shm_initialize called by inc_logs_counter with enable_logging=True:
\* `except Timeout: logger.debug(...); time.sleep(0.1); continue`
IncInitTimeoutLogged(p) ==
    /\ pc[p] = "inc_init"
    /\ ~LockFree(initLock["logs_counter"])
    /\ LogLine(p, IF tries[p] + 1 < INIT_RETRIES THEN "inc_init" ELSE "inc_giveup",
               "none", tries[p] + 1)
    /\ UNCHANGED <<dataLock, okAppends, periods>>

\* shm_initialize after range(5): logger.error("Failed to initialize ..."),
\* return None, False; inc_logs_counter: `if shm is None: return`
IncGiveUpLogged(p) ==
    /\ pc[p] = "inc_giveup"
    /\ LogLine(p, "inc_ret", "none", tries[p])
    /\ UNCHANGED <<dataLock, okAppends, periods>>

\* inc_logs_counter: `except Timeout: logger.error(...)`, then
\* `raise TimeoutError(...)`
IncLockTimeoutLogged(p) ==
    /\ pc[p] = "inc_lock"
    /\ ~LockFree(dataLock["logs_counter"])
    /\ periods' = [periods EXCEPT ![p] = @ + 1]
    /\ LogLine(p, "inc_ret", "TimeoutError", tries[p])
    /\ UNCHANGED <<dataLock, okAppends>>

\* add_log_to_shm: the exception of inc_logs_counter leaves `with LOCK:`;
\* `except Exception as e: logger.error(...)`
AddLogCaughtLogged(p) ==
    /\ pc[p] = "inc_ret"
    /\ op[p] = "add_log"
    /\ exc[p] # "none"
    /\ dataLock' = [dataLock EXCEPT !["logs"] = ReleaseLock(p, "logs")]
    /\ okAppends' = IF AddLogHandles(exc[p]) = "none"
                    THEN [okAppends EXCEPT !["logs"] = @ \cup {arg[p].id}]
                    ELSE okAppends
    /\ LogLine(p, "ap_ret", AddLogHandles(exc[p]), tries[p])
    /\ UNCHANGED periods

\* a log stream's shm_initialize with enable_logging=True:
\* `except Timeout: logger.debug(...); time.sleep(0.1); continue`
GetCounterInitTimeoutLogged(p) ==
    /\ pc[p] = "get_init"
    /\ ~LockFree(initLock["logs_counter"])
    /\ LogLine(p, IF tries[p] + 1 < INIT_RETRIES THEN "get_init" ELSE "get_giveup",
               "none", tries[p] + 1)
    /\ UNCHANGED <<dataLock, okAppends, periods>>

\* shm_initialize after range(5): logger.error("Failed to initialize ..."),
\* return None, False
GetCounterGiveUpLogged(p) ==
    /\ pc[p] = "get_giveup"
    /\ LogLine(p, "get_cold", "none", tries[p])
    /\ UNCHANGED <<dataLock, okAppends, periods>>

\* get_logs_counter: `except Timeout: logger.error(...)`, then
\* `raise TimeoutError(...)`
GetCounterLockTimeoutLogged(p) ==
    /\ pc[p] = "get_lock"
    /\ ~LockFree(dataLock["logs_counter"])
    /\ LogLine(p, "get_ret", "TimeoutError", tries[p])
    /\ UNCHANGED <<dataLock, okAppends, periods>>

\* a log stream starts polling: shm_logs_counter, _ =
\* initialize_logs_counter_shm(False); get_logs_counter(shm_logs_counter)
StreamStart(p) ==
    /\ pc[p] = "idle"
    /\ nOps < MaxLogCalls
    /\ nOps' = nOps + 1
    /\ pc' = [pc EXCEPT ![p] = "get_init"]
    /\ op' = [op EXCEPT ![p] = "get_counter"]
    /\ UNCHANGED <<seg, initLock, dataLock, tries, hnd, creator, exc, ret, arg>>
    /\ UNCHANGED <<memVars, localVars, stored, okAppends, incs, incOk, written>>
    /\ UNCHANGED <<lifeVars, extVars>>

\* an emit that lets everything but filelock.Timeout through
EmitCatchesTimeout(e) == IF e = "Timeout" THEN "none" ELSE e

\* LogHandler.emit: `except Exception: self.handleError(record)`
EmitCatches(e) == "none"

\* add_log_to_shm has returned or raised into LogHandler.emit
EmitCatch(p) ==
    /\ pc[p] = "ap_ret"
    /\ op[p] = "add_log"
    /\ handlerOn[p]
    /\ exc' = [exc EXCEPT ![p] = EmitCatches(exc[p])]
    /\ failed' = IF frames[p] = <<>> THEN [failed EXCEPT ![p] = exc[p]] ELSE failed
    /\ pc' = [pc EXCEPT ![p] = "em_ret"]
    /\ UNCHANGED <<seg, initLock, dataLock, op, tries, hnd, creator, ret, arg>>
    /\ UNCHANGED <<memVars, localVars, histVars, lifeVars>>
    /\ UNCHANGED <<osVars, pidVars, closed, handlerOn, frames, periods, appVars>>

\* the emit of a line logged inside add_log_to_shm returns: the suspended
\* add_log_to_shm goes on where it logged; an exception that emit let
\* through replaces the one in flight
LogLineReturn(p) ==
    /\ pc[p] = "em_ret"
    /\ frames[p] # <<>>
    /\ LET top == frames[p][Len(frames[p])]
       IN  /\ pc' = [pc EXCEPT ![p] = IF exc[p] = "none" THEN top.at ELSE "ap_ret"]
           /\ exc' = [exc EXCEPT ![p] = IF exc[p] = "none" THEN top.exc ELSE exc[p]]
           /\ op' = [op EXCEPT ![p] = top.op]
           /\ arg' = [arg EXCEPT ![p] = top.arg]
           /\ hnd' = [hnd EXCEPT ![p] = top.hnd]
           /\ tries' = [tries EXCEPT ![p] = top.tries]
           /\ dataLock' = IF exc[p] # "none" /\ top.at \in InsideWith
                          THEN [dataLock EXCEPT !["logs"] =
                                   IF \E i \in 1..(Len(frames[p]) - 1) :
                                          frames[p][i].at \in InsideWith
                                   THEN p ELSE NoProc]
                          ELSE dataLock
    /\ frames' = [frames EXCEPT ![p] = SubSeq(@, 1, Len(@) - 1)]
    /\ lvalue' = [lvalue EXCEPT ![p] = 0]
    /\ lcount' = [lcount EXCEPT ![p] = 0]
    /\ lnext' = [lnext EXCEPT ![p] = 0]
    /\ UNCHANGED <<seg, initLock, creator, ret>>
    /\ UNCHANGED <<memVars, histVars, lifeVars>>
    /\ UNCHANGED <<osVars, pidVars, closed, handlerOn, periods, failed, appVars>>

\* the logging call of the application returns
LogReturn(p) ==
    /\ frames[p] = <<>>
    /\ Return(p, "em_ret")

\* stop_log_handler(): root_logger.removeHandler(handler); the
\* logger.info("Log handler stopped ...") that follows reaches no LogHandler
StopLogHandler(p) ==
    /\ pc[p] = "idle"
    /\ handlerOn[p]
    /\ handlerOn' = [handlerOn EXCEPT ![p] = FALSE]
    /\ pc' = [pc EXCEPT ![p] = "stopped"]
    /\ UNCHANGED <<seg, initLock, dataLock, op, tries, hnd, creator, exc, ret, arg>>
    /\ UNCHANGED <<memVars, localVars, histVars, lifeVars>>
    /\ UNCHANGED <<osVars, pidVars, closed, frames, periods, failed, appVars>>

(* ------------------------- brute-force guard -------------------------- *)

\* request.client.host of the login requests; every address fits the 39
\* bytes of the record's ip field
Ips == 1..NumIps

\* addresses are interchangeable: the n-th request of a behaviour comes from
\* one of the first n
IpsOfRequest(n) == {i \in Ips : i <= n}

ZeroFlow == [id |-> 0, ip |-> 0, now |-> 0, valid |-> FALSE, at |-> "none",
             seen |-> <<>>]

\* _pack_attempt_entry and the decoding loop of get_auth_attempts_from_shm:
\* success travels as "1" / "0", timestamp and unlock_time as decimal text of
\* at most 16 digits, so the numbers come back as they went in; the username
\* is not read by the guard and is left out
PackAttempt(n, client_ip, timestamp, success, unlock_time) ==
    [id |-> n, ts |-> timestamp, ip |-> client_ip,
     success |-> IF success THEN "1" ELSE "0", unlock_time |-> unlock_time]

\* [a for a in get_auth_attempts_from_shm(0) if a["ip"] == client_ip]
OfIp(recs, client_ip) ==
    LET mine(a) == a.ip = client_ip
    IN  SelectSeq(recs, mine)

\* an is_ip_locked that never reports a ban
IsIpLockedNever(recs, client_ip, now) == None

\* is_ip_locked(client_ip, now) on the attempts read from the ring
IsIpLocked(recs, client_ip, now) ==
    LET attempts == OfIp(recs, client_ip)
    IN  IF attempts = <<>>
        THEN None
        ELSE IF attempts[Len(attempts)].unlock_time > now
        THEN attempts[Len(attempts)].unlock_time
        ELSE None

\* for i in range(len(all_attempts) - 1, -1, -1): the index of the last
\* attempt with success == "1", 0 when there is none (indices from 1)
LastSuccessIdx(all_attempts) ==
    LET hits == {i \in 1..Len(all_attempts) : all_attempts[i].success = "1"}
    IN  IF hits = {} THEN 0 ELSE CHOOSE i \in hits : \A j \in hits : j <= i

\* failed = the failures after the last success, then those with
\* timestamp >= now - window_seconds
FailedInWindow(all_attempts, now) ==
    LET tail == SubSeq(all_attempts, LastSuccessIdx(all_attempts) + 1,
                       Len(all_attempts))
        failure(a) == a.success = "0"
        recent(a) == a.ts >= now - window_seconds
    IN  SelectSeq(SelectSeq(tail, failure), recent)

\* a guard that bans one failure late
NeedBanLate(fails) == Len(fails) + 1 > max_attempts

\* need_ban = len(failed) + 1 >= AUTH_CONFIG["max_attempts"]
NeedBan(fails) == Len(fails) + 1 >= max_attempts

\* unlock_time of the record process_failed_attempt appends
UnlockTime(all_attempts, now) ==
    IF NeedBan(FailedInWindow(all_attempts, now)) THEN now + lockout_time ELSE 0

\* auth_login_flow(request, ...): client_ip = request.client.host;
\* now = int(time.time()); is_ip_locked(client_ip, now) starts with
\* get_auth_attempts_from_shm(0)
LoginCall(p) ==
    /\ pc[p] = "idle"
    /\ nOps < MaxLogins
    /\ nOps' = nOps + 1
    /\ \E client_ip \in IpsOfRequest(nOps + 1), ok \in BOOLEAN, t \in {clock, clock + 1} :
          /\ t <= MaxTime
          /\ clock' = t
          /\ flow' = [flow EXCEPT ![p] = [id |-> nOps + 1, ip |-> client_ip,
                                          now |-> t, valid |-> ok,
                                          at |-> "is_ip_locked", seen |-> <<>>]]
    /\ arg' = [arg EXCEPT ![p] = 0]
    /\ pc' = [pc EXCEPT ![p] = "rg_init"]
    /\ op' = [op EXCEPT ![p] = "get_auth"]
    /\ UNCHANGED <<seg, initLock, dataLock, tries, hnd, creator, exc, ret>>
    /\ UNCHANGED <<memVars, localVars, stored, okAppends, incs, incOk, written>>
    /\ UNCHANGED <<lifeVars, osVars, pidVars, closed, emitVars, cut, confVars, lateVars>>

\* the request is over: AuthResult returned, or the TimeoutError of a store
\* call has left auth_login_flow
LoginEnds(p) ==
    /\ pc' = [pc EXCEPT ![p] = "idle"]
    /\ op' = [op EXCEPT ![p] = "none"]
    /\ hnd' = [hnd EXCEPT ![p] = ZeroHnd]
    /\ creator' = [creator EXCEPT ![p] = FALSE]
    /\ tries' = [tries EXCEPT ![p] = 0]
    /\ exc' = [exc EXCEPT ![p] = "none"]
    /\ ret' = [ret EXCEPT ![p] = None]
    /\ arg' = [arg EXCEPT ![p] = 0]
    /\ flow' = [flow EXCEPT ![p] = ZeroFlow]

\* the next store call of the request starts with fresh locals
LoginGoesOn(p, call, first, a, stage, read) ==
    /\ pc' = [pc EXCEPT ![p] = first]
    /\ op' = [op EXCEPT ![p] = call]
    /\ hnd' = [hnd EXCEPT ![p] = ZeroHnd]
    /\ creator' = [creator EXCEPT ![p] = FALSE]
    /\ tries' = [tries EXCEPT ![p] = 0]
    /\ exc' = [exc EXCEPT ![p] = "none"]
    /\ ret' = [ret EXCEPT ![p] = None]
    /\ arg' = [arg EXCEPT ![p] = a]
    /\ flow' = [flow EXCEPT ![p].at = stage, ![p].seen = read]

\* locked_until = is_ip_locked(client_ip, now); if locked_until: return
\* AuthResult(False, ...). Otherwise valid credentials go to
\* add_auth_attempt_to_shm(client_ip, username, now, success=True,
\* unlock_time=0), and a decryption error or wrong credentials to
\* process_failed_attempt, which starts with get_auth_attempts_from_shm(0)
LoginChecked(p) ==
    /\ pc[p] = "rg_ret"
    /\ flow[p].at = "is_ip_locked"
    /\ IF exc[p] # "none" \/ IsIpLocked(ret[p], flow[p].ip, flow[p].now) # None
       THEN LoginEnds(p)
       ELSE IF flow[p].valid
       THEN LoginGoesOn(p, "add_auth", "ap_init",
                        PackAttempt(flow[p].id, flow[p].ip, flow[p].now, TRUE, 0),
                        "add_success", <<>>)
       ELSE LoginGoesOn(p, "get_auth", "rg_init", 0, "process_failed", <<>>)
    /\ UNCHANGED <<seg, initLock, dataLock>>
    /\ UNCHANGED <<memVars, localVars, histVars, lifeVars>>
    /\ UNCHANGED <<osVars, pidVars, closed, emitVars, clock, cut, confVars, lateVars>>

\* process_failed_attempt after its read: need_ban is computed from the
\* attempts read, and add_auth_attempt_to_shm(client_ip, username, now,
\* success=False, unlock_time=...) is called
FailedCounted(p) ==
    /\ pc[p] = "rg_ret"
    /\ flow[p].at = "process_failed"
    /\ IF exc[p] # "none"
       THEN LoginEnds(p)
       ELSE LoginGoesOn(p, "add_auth", "ap_init",
                        PackAttempt(flow[p].id, flow[p].ip, flow[p].now, FALSE,
                                    UnlockTime(OfIp(ret[p], flow[p].ip), flow[p].now)),
                        "add_failed", OfIp(ret[p], flow[p].ip))
    /\ UNCHANGED <<seg, initLock, dataLock>>
    /\ UNCHANGED <<memVars, localVars, histVars, lifeVars>>
    /\ UNCHANGED <<osVars, pidVars, closed, emitVars, clock, cut, confVars, lateVars>>

\* add_auth_attempt_to_shm has returned or raised: the request ends
LoginDone(p) ==
    /\ pc[p] = "ap_ret"
    /\ flow[p].at \in {"add_success", "add_failed"}
    /\ LoginEnds(p)
    /\ lcount' = [lcount EXCEPT ![p] = 0]
    /\ lnext' = [lnext EXCEPT ![p] = 0]
    /\ UNCHANGED <<seg, initLock, dataLock>>
    /\ UNCHANGED <<memVars, lvalue, histVars, lifeVars>>
    /\ UNCHANGED <<osVars, pidVars, closed, emitVars, clock, cut, confVars, lateVars>>

(* -------------------------- _shorten_message -------------------------- *)

\* a text is a sequence of characters; three characters stand for the code
\* points of one, two and three bytes
Chars == {"a", "e_acute", "euro"}

\* str.encode("utf-8") of one character: U+0061, U+00E9, U+20AC; U+002E
\* occurs in the default suffix only
Utf8(c) ==
    CASE c = "a" -> <<97>>
      [] c = "dot" -> <<46>>
      [] c = "e_acute" -> <<195, 169>>
      [] c = "euro" -> <<226, 130, 172>>

Texts(n) == UNION {[1..k -> Chars] : k \in 0..n}

RECURSIVE Encode(_)
\* text.encode("utf-8")
Encode(text) ==
    IF text = <<>> THEN <<>> ELSE Utf8(Head(text)) \o Encode(Tail(text))

\* (byte & 0b11000000) == 0b10000000
IsContinuation(byte) == byte \div 64 = 2

RECURSIVE Decode(_)
\* bytes.decode("utf-8", "ignore"): a byte that starts no complete
\* character is dropped
Decode(bytes) ==
    LET starts(c) == /\ Len(Utf8(c)) <= Len(bytes)
                     /\ SubSeq(bytes, 1, Len(Utf8(c))) = Utf8(c)
    IN  IF bytes = <<>>
        THEN <<>>
        ELSE IF \E c \in Chars : starts(c)
        THEN LET c == CHOOSE c \in Chars : starts(c)
             IN  <<c>> \o Decode(SubSeq(bytes, Len(Utf8(c)) + 1, Len(bytes)))
        ELSE Decode(Tail(bytes))

ZeroCut == [message |-> <<>>, max_len |-> 0, suffix |-> <<>>, at |-> "none",
            end |-> 0, kept |-> <<>>, short |-> <<>>]

\* a slice that keeps the last n characters
CharTail(text, n) == SubSeq(text, Len(text) - Min(n, Len(text)) + 1, Len(text))

\* suffix[:max_len]: a slice of a str counts characters
CharPrefix(text, n) == SubSeq(text, 1, Min(n, Len(text)))

\* message_bytes = message.encode("utf-8"); if len(message_bytes) <= max_len:
\* return message; available = max_len - len(encoded_suffix);
\* if available <= 0: return suffix[:max_len]; end = 0
ShortenFits ==
    /\ cut.at = "call"
    /\ IF Len(Encode(cut.message)) <= cut.max_len
       THEN cut' = [cut EXCEPT !.short = cut.message, !.at = "done"]
       ELSE IF cut.max_len - Len(Encode(cut.suffix)) <= 0
       THEN cut' = [cut EXCEPT !.short = CharPrefix(cut.suffix, cut.max_len),
                               !.at = "done"]
       ELSE cut' = [cut EXCEPT !.end = 0, !.at = "for"]
    /\ UNCHANGED <<seg, initLock, dataLock, procVars, memVars, localVars, histVars>>
    /\ UNCHANGED <<lifeVars, osVars, pidVars, closed, emitVars, guardVars, confVars, lateVars>>

\* for idx, byte in enumerate(message_bytes): if idx >= available: break;
\* end = idx
ShortenFor ==
    /\ cut.at = "for"
    /\ LET available == cut.max_len - Len(Encode(cut.suffix))
           last == Min(available, Len(Encode(cut.message))) - 1
       IN  cut' = [cut EXCEPT !.end = IF last >= 0 THEN last ELSE 0, !.at = "while"]
    /\ UNCHANGED <<seg, initLock, dataLock, procVars, memVars, localVars, histVars>>
    /\ UNCHANGED <<lifeVars, osVars, pidVars, closed, emitVars, guardVars, confVars, lateVars>>

\* while end > 0 and (message_bytes[end] & 0b11000000) == 0b10000000
StillInside(c) == c.end > 0 /\ IsContinuation(Encode(c.message)[c.end + 1])

\* end -= 1
ShortenWhile ==
    /\ cut.at = "while"
    /\ StillInside(cut)
    /\ cut' = [cut EXCEPT !.end = @ - 1]
    /\ UNCHANGED <<seg, initLock, dataLock, procVars, memVars, localVars, histVars>>
    /\ UNCHANGED <<lifeVars, osVars, pidVars, closed, emitVars, guardVars, confVars, lateVars>>

\* short = message_bytes[:end].decode("utf-8", "ignore") + suffix
ShortenCut ==
    /\ cut.at = "while"
    /\ ~StillInside(cut)
    /\ LET kept == SubSeq(Encode(cut.message), 1, cut.end)
       IN  cut' = [cut EXCEPT !.kept = kept, !.short = Decode(kept) \o cut.suffix,
                              !.at = "done"]
    /\ UNCHANGED <<seg, initLock, dataLock, procVars, memVars, localVars, histVars>>
    /\ UNCHANGED <<lifeVars, osVars, pidVars, closed, emitVars, guardVars, confVars, lateVars>>

(* ---------------------- packing a ring record ------------------------ *)

\* the fields followed, which take text from outside: three of a log record
\* and one of an auth record
Entries == {"module", "funcName", "message", "username"}

\* CONF["ENTRY_SIZES"][entry], scaled (20, 25, 1300, 64)
ENTRY_SIZES(entry) == IF entry = "message" THEN MessageWidth ELSE FieldWidth

\* the fields that go through _shorten_message, and the suffix they get:
\* the default "... (truncated)", scaled, for the message, "" for the username
Shortened == {"message", "username"}
SuffixOf(entry) == IF entry = "message" THEN <<"dot", "dot">> ELSE <<>>

ZeroPacked == [entry |-> "none", value |-> <<>>, data |-> <<>>, at |-> "none"]

\* b" " * n
Spaces(n) == [i \in 1..n |-> 32]

\* data = value.encode("utf-8")[: size]; if len(data) < size:
\* data += b" " * (size - len(data))
PackBytes(value, size) ==
    LET data == SubSeq(Encode(value), 1, Min(size, Len(Encode(value))))
    IN  data \o Spaces(size - Len(data))

\* value = _shorten_message(value, CONF["ENTRY_SIZES"][entry] [, ""]) has
\* returned
PackShortened ==
    /\ packed.at = "shorten"
    /\ cut.at = "done"
    /\ packed' = [packed EXCEPT !.value = cut.short, !.at = "encode"]
    /\ UNCHANGED <<seg, initLock, dataLock, procVars, memVars, localVars, histVars>>
    /\ UNCHANGED <<lifeVars, osVars, pidVars, closed, emitVars, guardVars, cut, confVars>>
    /\ UNCHANGED <<keyVars, client>>

\* the slice and the padding of one field
PackField ==
    /\ packed.at = "encode"
    /\ packed' = [packed EXCEPT !.data = PackBytes(packed.value, ENTRY_SIZES(packed.entry)),
                                !.at = "done"]
    /\ UNCHANGED <<seg, initLock, dataLock, procVars, memVars, localVars, histVars>>
    /\ UNCHANGED <<lifeVars, osVars, pidVars, closed, emitVars, guardVars, cut, confVars>>
    /\ UNCHANGED <<keyVars, client>>

(* --------------------------- crypto store ----------------------------- *)

KeyIds == 1..NumKeys

\* the PEM serialization of a key: `len` bytes that carry the key's id, the
\* last one marked as the end of the footer line
Pem(id, len) == [i \in 1..len |-> 10 * id + (IF i = len THEN 1 ELSE 0)]

\* a key pair as handed to shm_crypto_set_keys: a pair of the configured
\* size fits the fields, a larger one is longer than both of them
PrivateBytes(id, long) == Pem(id, IF long THEN PRIV_BYTES + 1 ELSE PRIV_BYTES)
PublicBytes(id, long) == Pem(id, IF long THEN PUB_BYTES + 1 ELSE PUB_BYTES)

\* bytes.ljust(width, b"\x00") packed as "<width>s": padded, or cut, to width
Field(bytes, width) ==
    [i \in 1..width |-> IF i <= Len(bytes) THEN bytes[i] ELSE 0]

\* _pack_entry: ENTRY_STRUCT.pack(len(priv_bytes), len(pub_bytes),
\* float(last_rotation), priv_bytes.ljust(...), pub_bytes.ljust(...))
PackEntry(priv_bytes, pub_bytes, last_rotation) ==
    [priv_len |-> Len(priv_bytes), pub_len |-> Len(pub_bytes),
     rot_time |-> last_rotation,
     priv_bytes |-> Field(priv_bytes, PRIV_BYTES),
     pub_bytes |-> Field(pub_bytes, PUB_BYTES)]

\* the zero-filled segment
ZeroEntry == [priv_len |-> 0, pub_len |-> 0, rot_time |-> 0,
              priv_bytes |-> Field(<<>>, PRIV_BYTES),
              pub_bytes |-> Field(<<>>, PUB_BYTES)]

\* serialization.load_pem_*_key accepts the bytes: a whole serialization
Loadable(bytes) ==
    /\ bytes # <<>>
    /\ bytes[Len(bytes)] % 10 = 1
    /\ \A i \in 1..(Len(bytes) - 1) : bytes[i] = bytes[Len(bytes)] - 1

\* _unpack_entry(entry): (private_key, public_key, rot_time), keys by id
UnpackEntry(e) ==
    LET priv == SubSeq(e.priv_bytes, 1, Min(e.priv_len, PRIV_BYTES))
        pub == SubSeq(e.pub_bytes, 1, Min(e.pub_len, PUB_BYTES))
        nothing == [private_key |-> None, public_key |-> None, rot_time |-> None]
    IN  IF e.priv_len = 0 \/ e.pub_len = 0
        THEN nothing
        ELSE IF ~Loadable(priv) \/ ~Loadable(pub)
        THEN nothing
        ELSE [private_key |-> priv[1] \div 10, public_key |-> pub[1] \div 10,
              rot_time |-> e.rot_time]

ZeroKc == [at |-> "idle", id |-> 0, long |-> FALSE, lr |-> None, pk |-> None,
           exc |-> "none", jwk |-> [n |-> None, lr |-> None]]

\* a step of a crypto call of p: nothing but the crypto segment, its lock,
\* the locals of p and the histories changes
KeyStep(p, at) ==
    /\ kc[p].at = at
    /\ UNCHANGED <<seg, initLock, dataLock, procVars, memVars, localVars>>
    /\ UNCHANGED <<stored, okAppends, incs, incOk, written>>
    /\ UNCHANGED <<lifeVars, osVars, pidVars, closed, emitVars, guardVars, cut, confVars, packed, client>>

\* what a crypto call hands on when the LOCK is not obtained in 2 s:
\* `except Timeout: logger.error(...); raise TimeoutError(...)`
KeyLockTimeout(p, at) ==
    /\ KeyStep(p, at)
    /\ keyLock \notin {NoProc, p}
    /\ kc' = [kc EXCEPT ![p].at = "ret", ![p].exc = "TimeoutError"]
    /\ UNCHANGED <<crypto, keyLock, minted, nOps>>

\* `with LOCK:` of a crypto call entered
KeyLock(p, at, next) ==
    /\ KeyStep(p, at)
    /\ LockFree(keyLock)
    /\ keyLock' = p
    /\ kc' = [kc EXCEPT ![p].at = next]
    /\ UNCHANGED <<crypto, minted, nOps>>

\* a caller enters shm_crypto_set_keys(private_key, public_key); the handle
\* is obtained
SetKeysCall(p) ==
    /\ KeyStep(p, "idle")
    /\ nOps < MaxKeyOps
    /\ nOps' = nOps + 1
    /\ \E id \in KeyIds, long \in BOOLEAN :
          kc' = [kc EXCEPT ![p] = [ZeroKc EXCEPT !.at = "set_lock", !.id = id,
                                                 !.long = long]]
    /\ UNCHANGED <<crypto, keyLock, minted>>

SetKeysLock(p) == KeyLock(p, "set_lock", "set_write")
SetKeysLockTimeout(p) == KeyLockTimeout(p, "set_lock")

\* packed = _pack_entry(private_key, public_key, time.time());
\* shm.buf[:ENTRY_SIZE] = packed; end of `with LOCK:`
SetKeysWrite(p) ==
    /\ KeyStep(p, "set_write")
    /\ crypto' = PackEntry(PrivateBytes(kc[p].id, kc[p].long),
                           PublicBytes(kc[p].id, kc[p].long), clock)
    /\ minted' = minted \cup {<<clock, kc[p].id>>}
    /\ keyLock' = NoProc
    /\ kc' = [kc EXCEPT ![p].at = "ret"]
    /\ UNCHANGED nOps

\* a request enters get_public_key_jwk(): refresh_keys() starts with
\* shm_crypto_get_last_rotation()
JwkCall(p) ==
    /\ KeyStep(p, "idle")
    /\ nOps < MaxKeyOps
    /\ nOps' = nOps + 1
    /\ kc' = [kc EXCEPT ![p] = [ZeroKc EXCEPT !.at = "rf_lock"]]
    /\ UNCHANGED <<crypto, keyLock, minted>>

RefreshLock(p) == KeyLock(p, "rf_lock", "rf_read")
RefreshLockTimeout(p) == KeyLockTimeout(p, "rf_lock")

\* the keys of the segment are no older than the rotation period
Fresh(last_rotation) ==
    last_rotation # None /\ clock - last_rotation <= key_rotation_period

\* refresh_keys(): with fresh keys in the segment it returns; else it goes
\* on to shm_crypto_set_keys(private_key, public_key, created_at), a call
\* with three arguments of a function that takes two, which raises
RefreshRead(p) ==
    /\ KeyStep(p, "rf_read")
    /\ keyLock' = NoProc
    /\ kc' = IF Fresh(UnpackEntry(crypto).rot_time)
             THEN [kc EXCEPT ![p].at = "lr_lock"]
             ELSE [kc EXCEPT ![p].at = "ret", ![p].exc = "Exception"]
    /\ UNCHANGED <<crypto, minted, nOps>>

\* last_rotation = shm_crypto_get_last_rotation()
LastRotationLock(p) == KeyLock(p, "lr_lock", "lr_read")
LastRotationLockTimeout(p) == KeyLockTimeout(p, "lr_lock")
LastRotationRead(p) ==
    /\ KeyStep(p, "lr_read")
    /\ keyLock' = NoProc
    /\ kc' = [kc EXCEPT ![p].at = "pk_lock", ![p].lr = UnpackEntry(crypto).rot_time]
    /\ UNCHANGED <<crypto, minted, nOps>>

\* public_key = shm_crypto_get_public_key()
PublicKeyLock(p) == KeyLock(p, "pk_lock", "pk_read")
PublicKeyLockTimeout(p) == KeyLockTimeout(p, "pk_lock")
PublicKeyRead(p) ==
    /\ KeyStep(p, "pk_read")
    /\ keyLock' = NoProc
    /\ kc' = [kc EXCEPT ![p].at = "jwk", ![p].pk = UnpackEntry(crypto).public_key]
    /\ UNCHANGED <<crypto, minted, nOps>>

\* numbers = public_key.public_numbers() ...; return jwk
JwkBuild(p) ==
    /\ KeyStep(p, "jwk")
    /\ kc' = IF kc[p].pk = None
             THEN [kc EXCEPT ![p].at = "ret", ![p].exc = "AttributeError"]
             ELSE [kc EXCEPT ![p].at = "ret",
                             ![p].jwk = [n |-> kc[p].pk, lr |-> kc[p].lr]]
    /\ UNCHANGED <<crypto, keyLock, minted, nOps>>

\* the crypto call of p is over
KeyReturn(p) ==
    /\ KeyStep(p, "ret")
    /\ kc' = [kc EXCEPT ![p] = ZeroKc]
    /\ UNCHANGED <<crypto, keyLock, minted, nOps>>

(* ------------------------ settings descriptors ------------------------ *)

\* a dict is a set of (key, value) pairs; one attribute of Settings is
\* followed
Keys == {"passphrase"}
Values == 1..NumValues
NoKeys == {}

\* instance.DEFAULT_SETTINGS
DEFAULT_SETTINGS == {<<"passphrase", 0>>}

\* content of settings.yml before the behaviour starts
FirstFile == {<<"passphrase", 1>>}

ZeroCfg == [at |-> "idle", file_mtime |-> 0, data |-> NoKeys]

HasKey(d, key) == \E kv \in d : kv[1] = key

\* current[keys[-1]] = value
Put(d, key, value) == {kv \in d : kv[1] # key} \cup {<<key, value>>}

\* _merge_with_defaults(instance, file_data): file_data.get(key, default)
\* for every key of DEFAULT_SETTINGS
MergeWithDefaults(file_data) ==
    {kv \in file_data : HasKey(DEFAULT_SETTINGS, kv[1])}
        \cup {kv \in DEFAULT_SETTINGS : ~HasKey(file_data, kv[1])}

\* write_settings_to_shm(mtime, data_dict): stamp and payload are written
\* in one critical section of the settings LOCK
WriteSettingsToShm(mtime, data_dict) == [mtime |-> mtime, data |-> data_dict]

\* a second of the wall clock passes
SecondPasses ==
    /\ clock < MaxTime
    /\ clock' = clock + 1
    /\ UNCHANGED <<seg, initLock, dataLock, procVars, memVars, localVars, histVars>>
    /\ UNCHANGED <<lifeVars, osVars, pidVars, closed, emitVars, flow, cut, confVars, lateVars>>

\* a step of a settings call of p: nothing but file, cache, the locals of p
\* and the file lock may change
ConfStep(p, at, next) ==
    /\ cfg[p].at = at
    /\ cfg'[p].at = next
    /\ \A q \in Procs \ {p} : cfg'[q] = cfg[q]
    /\ UNCHANGED <<seg, initLock, dataLock, procVars, memVars, localVars>>
    /\ UNCHANGED <<stored, okAppends, incs, incOk, written>>
    /\ UNCHANGED <<lifeVars, osVars, pidVars, closed, emitVars, guardVars, cut, lateVars>>

\* __get__: file_mtime = int(os.path.getmtime(path))
GetStat(p) ==
    /\ nOps < MaxConfOps
    /\ nOps' = nOps + 1
    /\ cfg' = [cfg EXCEPT ![p] = [at |-> "get_shm", file_mtime |-> file.mtime,
                                  data |-> NoKeys]]
    /\ ConfStep(p, "idle", "get_shm")
    /\ UNCHANGED <<file, cache, cfgLock>>

\* shm_mtime, shm_data = read_settings_from_shm();
\* if shm_mtime != file_mtime or not shm_data: ... else return
\* shm_data.get(self._key, self._default)
GetReadShm(p) ==
    /\ cfg[p].at = "get_shm"
    /\ cfg' = [cfg EXCEPT ![p] =
                 IF cache.mtime # cfg[p].file_mtime \/ cache.data = NoKeys
                 THEN [cfg[p] EXCEPT !.at = "get_file"]
                 ELSE ZeroCfg]
    /\ ConfStep(p, "get_shm", cfg'[p].at)
    /\ UNCHANGED <<nOps, file, cache, cfgLock>>

\* with open(path, "r") as f: file_data = yaml.safe_load(f) or {}
GetReadFile(p) ==
    /\ cfg' = [cfg EXCEPT ![p].data = file.data, ![p].at = "get_write"]
    /\ ConfStep(p, "get_file", "get_write")
    /\ UNCHANGED <<nOps, file, cache, cfgLock>>

\* write_settings_to_shm(file_mtime, all_settings_with_defaults); return
GetWriteShm(p) ==
    /\ cache' = WriteSettingsToShm(cfg[p].file_mtime, MergeWithDefaults(cfg[p].data))
    /\ cfg' = [cfg EXCEPT ![p] = ZeroCfg]
    /\ ConfStep(p, "get_write", "idle")
    /\ UNCHANGED <<nOps, file, cfgLock>>

\* __set__(instance, value): file_lock = FileLock(lock_path, timeout=2)
SetCall(p) ==
    /\ nOps < MaxConfOps
    /\ nOps' = nOps + 1
    /\ \E value \in Values :
          cfg' = [cfg EXCEPT ![p] = [at |-> "set_lock", file_mtime |-> 0,
                                     data |-> {<<"passphrase", value>>}]]
    /\ ConfStep(p, "idle", "set_lock")
    /\ UNCHANGED <<file, cache, cfgLock>>

\* `with file_lock:` entered
SetLock(p) ==
    /\ cfgLock = NoProc
    /\ cfgLock' = p
    /\ cfg' = [cfg EXCEPT ![p].at = "set_read"]
    /\ ConfStep(p, "set_lock", "set_read")
    /\ UNCHANGED <<nOps, file, cache>>

\* Timeout of the file lock: `except Exception` logs and re-raises
SetLockTimeout(p) ==
    /\ cfgLock # NoProc
    /\ cfg' = [cfg EXCEPT ![p] = ZeroCfg]
    /\ ConfStep(p, "set_lock", "idle")
    /\ UNCHANGED <<nOps, file, cache, cfgLock>>

\* data = yaml.safe_load(f) or {}; current[keys[-1]] = value
SetReadFile(p) ==
    /\ \E kv \in cfg[p].data :
          cfg' = [cfg EXCEPT ![p].data = Put(file.data, kv[1], kv[2]),
                             ![p].at = "set_open"]
    /\ ConfStep(p, "set_read", "set_open")
    /\ UNCHANGED <<nOps, file, cache, cfgLock>>

\* open(path, "w"): the file is truncated
OpenForWriting == [mtime |-> clock, data |-> NoKeys]

\* yaml.dump(data, f, ...) and the close of the file
Dumped(data) == [mtime |-> clock, data |-> data]

SetOpen(p) ==
    /\ file' = OpenForWriting
    /\ cfg' = [cfg EXCEPT ![p].at = "set_dump"]
    /\ ConfStep(p, "set_open", "set_dump")
    /\ UNCHANGED <<nOps, cache, cfgLock>>

SetDump(p) ==
    /\ file' = Dumped(cfg[p].data)
    /\ cfg' = [cfg EXCEPT ![p].at = "set_stat"]
    /\ ConfStep(p, "set_dump", "set_stat")
    /\ UNCHANGED <<nOps, cache, cfgLock>>

\* file_mtime = int(os.path.getmtime(path))
SetStat(p) ==
    /\ cfg' = [cfg EXCEPT ![p].file_mtime = file.mtime, ![p].at = "set_write"]
    /\ ConfStep(p, "set_stat", "set_write")
    /\ UNCHANGED <<nOps, file, cache, cfgLock>>

\* write_settings_to_shm(file_mtime, all_settings_with_defaults); the file
\* lock is released
SetWriteShm(p) ==
    /\ cache' = WriteSettingsToShm(cfg[p].file_mtime, MergeWithDefaults(cfg[p].data))
    /\ cfgLock' = NoProc
    /\ cfg' = [cfg EXCEPT ![p] = ZeroCfg]
    /\ ConfStep(p, "set_write", "idle")
    /\ UNCHANGED <<nOps, file>>

\* save_settings_to_file(settings_path, data): open(settings_path, "w")
SaveOpen(p) ==
    /\ nOps < MaxConfOps
    /\ nOps' = nOps + 1
    /\ file' = OpenForWriting
    /\ \E value \in Values :
          cfg' = [cfg EXCEPT ![p] = [at |-> "save_dump", file_mtime |-> 0,
                                     data |-> {<<"passphrase", value>>}]]
    /\ ConfStep(p, "idle", "save_dump")
    /\ UNCHANGED <<cache, cfgLock>>

\* yaml.dump(sorted_data, f, ...) and the close of the file
SaveDump(p) ==
    /\ file' = Dumped(cfg[p].data)
    /\ cfg' = [cfg EXCEPT ![p] = ZeroCfg]
    /\ ConfStep(p, "save_dump", "idle")
    /\ UNCHANGED <<nOps, cache, cfgLock>>

(* --------------------------- initial states --------------------------- *)

\* zero-filled scalars and roster, nobody inside log_pids, nothing closed,
\* no LogHandler installed yet
InitOs ==
    /\ handlerOn = [p \in Procs |-> FALSE]
    /\ frames = [p \in Procs |-> <<>>]
    /\ periods = [p \in Procs |-> 0]
    /\ failed = [p \in Procs |-> "none"]
    /\ scalar = [r \in ScalarRegions |-> [i \in 1..NumProcs |-> 0]]
    /\ roster = ZeroRoster
    /\ waited = [p \in Procs |-> 0]
    /\ all_pids = [p \in Procs |-> <<>>]
    /\ is_leader = [p \in Procs |-> FALSE]
    /\ regs = <<>>
    /\ closed = {}

\* no login request under way
InitGuard ==
    /\ clock = 1
    /\ flow = [p \in Procs |-> ZeroFlow]

\* settings.yml was written in second 1; the settings segment is still
\* zero-filled
InitConf ==
    /\ file = [mtime |-> 1, data |-> FirstFile]
    /\ cache = [mtime |-> 0, data |-> NoKeys]
    /\ cfg = [p \in Procs |-> ZeroCfg]
    /\ cfgLock = NoProc

\* nothing is being packed
\* no log stream: client_data has no entry
ZeroClient == [at |-> "off", buffer |-> <<>>, counter |-> 0, cur |-> 0,
               shm_shutdown |-> None, shm_logs_counter |-> None,
               sent |-> <<>>, base |-> 0, seen |-> 0, paced |-> TRUE,
               last |-> "none"]

InitLate ==
    /\ packed = ZeroPacked
    /\ crypto = ZeroEntry
    /\ keyLock = NoProc
    /\ kc = [p \in Procs |-> ZeroKc]
    /\ minted = {}
    /\ client = [p \in Procs |-> ZeroClient]

InitExt ==
    /\ InitOs
    /\ InitGuard
    /\ cut = ZeroCut
    /\ InitConf
    /\ InitLate

\* every process idle, attached to nothing
InitIdle ==
    /\ seg = [r \in AllRegions |-> 1]
    /\ initLock = [r \in AllRegions |-> NoProc]
    /\ dataLock = [r \in AllRegions |-> NoProc]
    /\ pc = [p \in Procs |-> "idle"]
    /\ op = [p \in Procs |-> "none"]
    /\ tries = [p \in Procs |-> 0]
    /\ hnd = [p \in Procs |-> ZeroHnd]
    /\ creator = [p \in Procs |-> FALSE]
    /\ exc = [p \in Procs |-> "none"]
    /\ ret = [p \in Procs |-> None]
    /\ arg = [p \in Procs |-> 0]
    /\ lvalue = [p \in Procs |-> 0]
    /\ lcount = [p \in Procs |-> 0]
    /\ lnext = [p \in Procs |-> 0]
    /\ incs = 0
    /\ incOk = 0
    /\ written = <<0, 0>>
    /\ nOps = 0
    /\ life = [p \in Procs |-> [r \in AllRegions |-> [shm |-> 1, creator |-> p = 1]]]
    /\ gaveUp = {}
    /\ made = [r \in AllRegions |-> 1]

\* the segments as lifespan() created them
InitMemory ==
    /\ counter = 0
    /\ ring = [r \in RingNames |-> ZeroRing]
    /\ blob = ZeroBlob
    /\ stored = [r \in RingNames |-> <<>>]
    /\ okAppends = [r \in RingNames |-> {}]

InitRunning ==
    /\ InitIdle
    /\ InitMemory
    /\ InitExt

\* _shorten_message(message, max_len, suffix) is called
InitText ==
    /\ InitIdle
    /\ InitMemory
    /\ InitOs
    /\ InitGuard
    /\ InitConf
    /\ InitLate
    /\ \E message \in Texts(MaxChars), suffix \in Texts(MaxSuffix), max_len \in 0..MaxWidth :
          cut = [ZeroCut EXCEPT !.message = message, !.suffix = suffix,
                                !.max_len = max_len, !.at = "call"]

\* the processes run with settings.yml last written a second ago
InitSettings ==
    /\ InitIdle
    /\ InitMemory
    /\ InitOs
    /\ clock = 2
    /\ flow = [p \in Procs |-> ZeroFlow]
    /\ cut = ZeroCut
    /\ InitConf
    /\ InitLate

\* a process group starts: no segment exists, every process is about to
\* run the initialize_*_shm() calls of lifespan()
InitBoot ==
    /\ seg = [r \in AllRegions |-> 0]
    /\ initLock = [r \in AllRegions |-> NoProc]
    /\ dataLock = [r \in AllRegions |-> NoProc]
    /\ pc = [p \in Procs |-> "boot_init"]
    /\ op = [p \in Procs |-> "none"]
    /\ tries = [p \in Procs |-> 0]
    /\ hnd = [p \in Procs |-> ZeroHnd]
    /\ creator = [p \in Procs |-> FALSE]
    /\ exc = [p \in Procs |-> "none"]
    /\ ret = [p \in Procs |-> None]
    /\ arg = [p \in Procs |-> 1]
    /\ counter = 0
    /\ lvalue = [p \in Procs |-> 0]
    /\ ring = [r \in RingNames |-> ZeroRing]
    /\ lcount = [p \in Procs |-> 0]
    /\ lnext = [p \in Procs |-> 0]
    /\ blob = ZeroBlob
    /\ stored = [r \in RingNames |-> <<>>]
    /\ okAppends = [r \in RingNames |-> {}]
    /\ incs = 0
    /\ incOk = 0
    /\ written = <<0, 0>>
    /\ nOps = 0
    /\ life = [p \in Procs |-> [r \in AllRegions |-> [shm |-> None, creator |-> FALSE]]]
    /\ gaveUp = {}
    /\ made = [r \in AllRegions |-> 0]
    /\ InitExt

\* no worker has started and no segment exists
InitLife ==
    /\ seg = [r \in AllRegions |-> 0]
    /\ initLock = [r \in AllRegions |-> NoProc]
    /\ dataLock = [r \in AllRegions |-> NoProc]
    /\ pc = [p \in Procs |-> "off"]
    /\ op = [p \in Procs |-> "none"]
    /\ tries = [p \in Procs |-> 0]
    /\ hnd = [p \in Procs |-> ZeroHnd]
    /\ creator = [p \in Procs |-> FALSE]
    /\ exc = [p \in Procs |-> "none"]
    /\ ret = [p \in Procs |-> None]
    /\ arg = [p \in Procs |-> 0]
    /\ counter = 0
    /\ lvalue = [p \in Procs |-> 0]
    /\ ring = [r \in RingNames |-> ZeroRing]
    /\ lcount = [p \in Procs |-> 0]
    /\ lnext = [p \in Procs |-> 0]
    /\ blob = ZeroBlob
    /\ stored = [r \in RingNames |-> <<>>]
    /\ okAppends = [r \in RingNames |-> {}]
    /\ incs = 0
    /\ incOk = 0
    /\ written = <<0, 0>>
    /\ nOps = 0
    /\ life = [p \in Procs |-> [r \in AllRegions |-> [shm |-> None, creator |-> FALSE]]]
    /\ gaveUp = {}
    /\ made = [r \in AllRegions |-> 0]
    /\ InitExt

\* the handles a start-up can leave to a process for one region: none (all
\* attempts timed out), attached, or created
LifeHandles ==
    {[shm |-> None, creator |-> FALSE],
     [shm |-> 1, creator |-> FALSE],
     [shm |-> 1, creator |-> TRUE]}

\* the process group at the `yield` of lifespan(): every process holds what
\* its start-up returned, with at most one creator per region; the name of a
\* region may already be gone from the OS
InitCleanup ==
    /\ \E present \in [ScalarRegions -> {0, 1}] :
          seg = [r \in AllRegions |-> IF r \in ScalarRegions THEN present[r] ELSE 1]
    /\ initLock = [r \in AllRegions |-> NoProc]
    /\ dataLock = [r \in AllRegions |-> NoProc]
    /\ pc = [p \in Procs |-> "idle"]
    /\ op = [p \in Procs |-> "none"]
    /\ tries = [p \in Procs |-> 0]
    /\ hnd = [p \in Procs |-> ZeroHnd]
    /\ creator = [p \in Procs |-> FALSE]
    /\ exc = [p \in Procs |-> "none"]
    /\ ret = [p \in Procs |-> None]
    /\ arg = [p \in Procs |-> 0]
    /\ counter = 0
    /\ lvalue = [p \in Procs |-> 0]
    /\ ring = [r \in RingNames |-> ZeroRing]
    /\ lcount = [p \in Procs |-> 0]
    /\ lnext = [p \in Procs |-> 0]
    /\ blob = ZeroBlob
    /\ stored = [r \in RingNames |-> <<>>]
    /\ okAppends = [r \in RingNames |-> {}]
    /\ incs = 0
    /\ incOk = 0
    /\ written = <<0, 0>>
    /\ nOps = 0
    /\ \E got \in [Procs -> [ScalarRegions -> LifeHandles]] :
          /\ \A r \in ScalarRegions :
                Cardinality({p \in Procs : got[p][r].creator}) <= 1
          /\ life = [p \in Procs |-> [r \in AllRegions |->
                        IF r \in ScalarRegions THEN got[p][r]
                        ELSE [shm |-> 1, creator |-> p = 1]]]
    /\ gaveUp = {}
    /\ made = [r \in AllRegions |-> 1]
    /\ InitExt

(* ------------------- specification: the log counter ------------------- *)

NextCounter ==
    \E p \in Procs :
        \/ IncCall(p)
        \/ IncInitAcquire(p)
        \/ IncInitTimeout(p)
        \/ IncInitAttach(p)
        \/ IncLock(p)
        \/ IncLockTimeout(p)
        \/ IncRead(p)
        \/ IncWrite(p)
        \/ IncUnlock(p)
        \/ IncReturn(p)
        \/ GetCounterCall(p)
        \/ GetCounterInitAcquire(p)
        \/ GetCounterInitTimeout(p)
        \/ GetCounterInitAttach(p)
        \/ GetCounterCold(p)
        \/ GetCounterLock(p)
        \/ GetCounterLockTimeout(p)
        \/ GetCounterRead(p)
        \/ GetCounterReturn(p)

SpecCounter == InitRunning /\ [][NextCounter]_vars

(* --------------------- specification: the rings ----------------------- *)

NextRing ==
    \E p \in Procs :
        \/ AddLogCall(p)
        \/ AddAuthCall(p)
        \/ ApInitAcquire(p)
        \/ ApInitTimeout(p)
        \/ ApInitAttach(p)
        \/ ApLock(p)
        \/ ApLockTimeout(p)
        \/ IncInitAcquire(p)
        \/ IncInitTimeout(p)
        \/ IncInitAttach(p)
        \/ IncLock(p)
        \/ IncLockTimeout(p)
        \/ IncRead(p)
        \/ IncWrite(p)
        \/ IncUnlock(p)
        \/ AddLogAfterInc(p)
        \/ ApHdr(p)
        \/ ApSlot(p)
        \/ ApCount(p)
        \/ ApNext(p)
        \/ ApReturn(p)
        \/ GetLogsCall(p)
        \/ GetAuthCall(p)
        \/ RgInitAcquire(p)
        \/ RgInitTimeout(p)
        \/ RgInitAttach(p)
        \/ RgCold(p)
        \/ RgLock(p)
        \/ RgLockTimeout(p)
        \/ RgRead(p)
        \/ RgReturn(p)
        \/ GetCounterCall(p)
        \/ GetCounterInitAcquire(p)
        \/ GetCounterInitTimeout(p)
        \/ GetCounterInitAttach(p)
        \/ GetCounterCold(p)
        \/ GetCounterLock(p)
        \/ GetCounterLockTimeout(p)
        \/ GetCounterRead(p)
        \/ GetCounterReturn(p)

SpecRing == InitRunning /\ [][NextRing]_vars

\* the last n elements of a sequence (all of it when it is shorter)
LastN(sq, n) ==
    LET k == Min(n, Len(sq))
    IN  [i \in 1..k |-> sq[Len(sq) - k + i]]

(* C1: once a ring that started empty holds M >= capacity records, a read
   of the last `capacity` records (get_logs_from_shm(limit = capacity),
   get_auth_attempts_from_shm(since_time = 0)) returns exactly the records
   M - capacity .. M - 1 in the order in which they were written. *)
C1_ReadLastCapacity ==
    [][\A p \in Procs :
          (/\ pc[p] = "rg_read"
           /\ pc'[p] = "rg_ret"
           /\ Len(stored[RingOf(p)]) >= MAX_BUFFER_SIZE
           /\ arg[p] = IF op[p] = "get_logs" THEN MAX_BUFFER_SIZE ELSE 0)
              => ret'[p] = LastN(stored[RingOf(p)], MAX_BUFFER_SIZE)]_vars

\* a full read of a ring that has wrapped around has returned
C1_Witness ==
    \E p \in Procs :
        /\ pc[p] = "rg_ret"
        /\ hnd[p].shm # None
        /\ exc[p] = "none"
        /\ arg[p] = IF op[p] = "get_logs" THEN MAX_BUFFER_SIZE ELSE 0
        /\ Len(stored[RingOf(p)]) > MAX_BUFFER_SIZE
        /\ ret[p] = LastN(stored[RingOf(p)], MAX_BUFFER_SIZE)

(* C2: get_logs_from_shm(limit = n) returns exactly min(n, count) records,
   the most recently written ones from oldest to newest; it returns the
   empty list for n = 0 or an empty ring, exactly count records for
   n > count, and never the content of a slot that was never written. *)
C2_ReadLastN ==
    [][\A p \in Procs :
          (pc[p] = "rg_read" /\ pc'[p] = "rg_ret" /\ op[p] = "get_logs")
              => LET k == Min(arg[p], ring["logs"].count)
                 IN  /\ Len(ret'[p]) = k
                     /\ ret'[p] = LastN(stored["logs"], k)
                     /\ \A i \in 1..Len(ret'[p]) : ret'[p][i] # ZeroRec]_vars

\* a read asking for more than the ring holds has returned the one record
\* of a ring that is not yet full
C2_Witness ==
    \E p \in Procs :
        /\ pc[p] = "rg_ret"
        /\ op[p] = "get_logs"
        /\ hnd[p].shm # None
        /\ exc[p] = "none"
        /\ arg[p] > MAX_BUFFER_SIZE
        /\ ring["logs"].count = 1
        /\ Len(ret[p]) = 1

\* the ids held by the slots of ring r that carry a record
SlotIds(r) ==
    {ring[r].slots[i].data.id :
        i \in {j \in 0..(MAX_BUFFER_SIZE - 1) : ring[r].slots[j].size = EntrySize(r)}}

(* C3: appends are serialized by the ring's mutex: when no process is in
   the critical section of a ring and K <= capacity appends to it have
   returned without error, each of the K records is in a slot of its own,
   count = K and next_write_index = K mod capacity. *)
C3_AppendsSerialized ==
    \A r \in RingNames :
        (dataLock[r] = NoProc /\ Cardinality(okAppends[r]) <= MAX_BUFFER_SIZE)
            => /\ okAppends[r] \subseteq SlotIds(r)
               /\ ring[r].count = Cardinality(okAppends[r])
               /\ ring[r].next_idx = Cardinality(okAppends[r]) % MAX_BUFFER_SIZE

\* C3 for the auth ring alone, whose append makes no nested call
C3_AuthAppendsSerialized ==
    (dataLock["auth"] = NoProc /\ Cardinality(okAppends["auth"]) <= MAX_BUFFER_SIZE)
        => /\ okAppends["auth"] \subseteq SlotIds("auth")
           /\ ring["auth"].count = Cardinality(okAppends["auth"])
           /\ ring["auth"].next_idx = Cardinality(okAppends["auth"]) % MAX_BUFFER_SIZE

(* ------------------ specification: the settings blob ----------------- *)

NextBlob ==
    \E p \in Procs :
        \/ WrCall(p)
        \/ WrInitAcquire(p)
        \/ WrInitTimeout(p)
        \/ WrInitAttach(p)
        \/ WrLock(p)
        \/ WrLockTimeout(p)
        \/ WrCheck(p)
        \/ WrMtime(p)
        \/ WrSize(p)
        \/ WrBytes(p)
        \/ WrReturn(p)
        \/ RdCall(p)
        \/ RdInitAcquire(p)
        \/ RdInitTimeout(p)
        \/ RdInitAttach(p)
        \/ RdCold(p)
        \/ RdLock(p)
        \/ RdLockTimeout(p)
        \/ RdRead(p)
        \/ RdReturn(p)

SpecBlob == InitRunning /\ [][NextBlob]_vars

\* process p is inside a write whose serialized payload exceeds the capacity
InOversizeWrite(p) ==
    /\ op[p] = "write_settings"
    /\ Len(JsonDumps(arg[p][2])) > SETTINGS_SIZE

(* C5: no step of a settings write whose payload is larger than the blob
   capacity changes the stored stamp, the stored length or a payload byte,
   so what a read returns is the same before and after the rejected write. *)
C5_OversizeWriteChangesNothing ==
    [][\A p \in Procs :
          (InOversizeWrite(p) /\ pc'[p] # pc[p])
              => (blob' = blob /\ ReadSettings(blob') = ReadSettings(blob))]_vars

\* an oversize write has been rejected while a valid blob was stored
C5_Witness ==
    \E p \in Procs :
        /\ InOversizeWrite(p)
        /\ pc[p] = "wr_ret"
        /\ hnd[p].shm # None
        /\ exc[p] = "none"
        /\ ~BadSize(blob.size)

(* C6: a settings write whose payload exceeds the capacity signals an error
   to its caller. *)
C6_OversizeWriteSignalsError ==
    \A p \in Procs :
        (InOversizeWrite(p) /\ pc[p] = "wr_ret" /\ hnd[p].shm # None)
            => exc[p] # "none"

(* C7: a read that attached and got the lock returns the stamp and the
   payload of one and the same write, the latest one completed (for a fresh
   blob: the zero stamp and the empty dict), and a stored length outside
   0 < length <= capacity makes it return (stamp, empty). *)
C7_ReadReturnsLatestWrite ==
    [][\A p \in Procs :
          (pc[p] = "rd_read" /\ pc'[p] = "rd_ret")
              => /\ exc'[p] = "none"
                 /\ ret'[p] = written
                 /\ BadSize(blob.size) => ret'[p] = <<blob.mtime, EmptyDict>>]_vars

\* a read has returned the pair of the second of two writes, while another
\* writer is waiting or writing
C7_Witness ==
    \E p, q \in Procs :
        /\ pc[p] = "rd_ret"
        /\ hnd[p].shm # None
        /\ exc[p] = "none"
        /\ ret[p] = written
        /\ ret[p][1] # 0
        /\ nOps >= 2
        /\ op[q] = "write_settings"

(* ------------------ specification: start-up of a group ---------------- *)

NextBoot ==
    \E p \in Procs :
        \/ BootInitAcquire(p)
        \/ BootInitTimeout(p)
        \/ BootInitAttach(p)
        \/ BootInitCreate(p)
        \/ BootGot(p)

SpecBoot == InitBoot /\ [][NextBoot]_vars

\* position of region r in BootOrder
BootIndex(r) == CHOOSE i \in 1..Len(BootOrder) : BootOrder[i] = r

\* process p has got the result of its shm_initialize(r, size, create=True)
Booted(p, r) == pc[p] = "idle" \/ (pc[p] # "idle" /\ arg[p] > BootIndex(r))

(* C4 as stated: when all processes have initialised a name that did not
   exist, exactly one of them is the creator and every other one holds a
   working handle to the creator's segment with is_creator = False. *)
C4_OneCreatorAllAttached ==
    \A r \in Regions :
        (\A p \in Procs : Booted(p, r)) =>
            \E c \in Procs :
                /\ life[c][r].creator
                /\ life[c][r].shm # None
                /\ \A p \in Procs \ {c} :
                      /\ ~life[p][r].creator
                      /\ life[p][r].shm = life[c][r].shm

(* C4 amended: exactly one process is the creator; every other one gets
   is_creator = False and either a working handle to the creator's segment
   or, when all five attempts at the initialisation lock timed out, None. *)
C4_OneCreatorOthersAttachedOrGaveUp ==
    \A r \in Regions :
        (\A p \in Procs : Booted(p, r)) =>
            \E c \in Procs :
                /\ life[c][r].creator
                /\ life[c][r].shm # None
                /\ \A p \in Procs \ {c} :
                      /\ ~life[p][r].creator
                      /\ \/ life[p][r].shm = life[c][r].shm
                         \/ life[p][r].shm = None /\ <<p, r>> \in gaveUp
                      /\ <<p, r>> \in gaveUp => life[p][r].shm = None

\* all processes are through the initialisation of a region: one created
\* it, another one found it existing and attached to the creator's segment
C4_Witness ==
    \E r \in Regions : \E c, p \in Procs :
        /\ \A q \in Procs : Booted(q, r)
        /\ life[c][r].creator
        /\ p # c
        /\ ~life[p][r].creator
        /\ life[p][r].shm = life[c][r].shm
        /\ life[p][r].shm # None

(* C37: shm_initialize makes at most 5 attempts at the initialisation lock;
   an attempt that fails before the fifth leads to the next attempt, and when
   the fifth has failed the call returns (None, False) without raising. *)
C37_FiveAttemptsThenNone ==
    /\ [](\A p \in Procs : tries[p] <= 5)
    /\ [][\A p \in Procs :
            (pc[p] \in {"boot_init", "boot_create"} /\ tries'[p] = tries[p] + 1) =>
                /\ exc'[p] = "none"
                /\ tries'[p] < 5 =>
                       /\ pc'[p] = "boot_init"
                       /\ hnd'[p] = hnd[p] /\ creator'[p] = creator[p]
                /\ tries'[p] = 5 =>
                       /\ pc'[p] = "boot_got"
                       /\ hnd'[p].shm = None /\ ~creator'[p]]_vars

\* a start-up call has used up its five attempts and returned (None, False)
\* while another process held the initialisation lock of the region
C37_Witness ==
    \E p \in Procs :
        /\ pc[p] = "boot_got"
        /\ tries[p] = 5
        /\ hnd[p].shm = None /\ ~creator[p] /\ exc[p] = "none"
        /\ initLock[BootRegion(p)] \notin {NoProc, p}

(* C8: every counter write stores (old + 1) mod MAX_VALUE, the value stays
   within 0 .. MAX_VALUE - 1 in every reachable state, and when MAX_VALUE + 5
   increments have been performed on a fresh counter the value is 5. *)
C8_CounterWraps ==
    /\ [](/\ 0 <= counter
          /\ counter <= MAX_VALUE - 1
          /\ (incs = MAX_VALUE + 5 => counter = 5))
    /\ [][incs' = incs + 1 => counter' = (counter + 1) % MAX_VALUE]_vars

\* the counter has gone once around and five further
C8_Witness == incs = MAX_VALUE + 5 /\ counter = 5

(* C9: increments of different processes are not lost: whenever no process
   is inside the counter's critical section, the counter equals the number
   of inc_logs_counter calls that attached and returned without error,
   modulo MAX_VALUE (the counter starts at 0). *)
C9_NoLostIncrement ==
    dataLock["logs_counter"] = NoProc => counter = incOk % MAX_VALUE

\* two increments overlap: one process waits for the lock the other holds,
\* after an earlier increment has already completed
C9_Witness ==
    \E p, q \in Procs :
        /\ p # q
        /\ pc[p] = "inc_lock"
        /\ pc[q] = "inc_unlock"
        /\ incOk > 0

(* C10: the increment returns the new counter value (old + 1) mod MAX_VALUE
   to its caller. *)
C10_IncReturnsNewValue ==
    \A p \in Procs :
        (pc[p] = "inc_ret" /\ exc[p] = "none" /\ hnd[p].ctr # None)
            => ret[p] = lvalue[p]

(* ------------------ specification: the start-up barrier ---------------- *)

NextPids ==
    \E p \in Procs :
        \/ LogPidsCall(p)
        \/ RegLock(p)
        \/ RegLockTimeout(p)
        \/ RegRead(p)
        \/ RegSlot(p)
        \/ RegCount(p)
        \/ PollLock(p)
        \/ PollLockTimeout(p)
        \/ PollRead(p)
        \/ PollCheck(p)
        \/ PollSleep(p)
        \/ Elect(p)

SpecPids == InitRunning /\ [][NextPids]_vars

\* the pids of the completed registrations, in registration order
RegisteredPids == [i \in 1..Len(regs) |-> regs[i].pid]

(* C11: register_pid writes the caller's pid into the slot at index
   registered_count and returns the new count: whenever no process is inside
   the roster's critical section and k registrations have completed,
   registered_count = k, the i-th registration returned i and slot i holds
   its pid; every get_all_pids returns the k pids in registration order. *)
C11_RegisterAppends ==
    /\ [](dataLock["pids"] = NoProc =>
            /\ roster[0] = Len(regs)
            /\ \A i \in 1..Len(regs) :
                  regs[i].count = i /\ roster[i] = regs[i].pid)
    /\ [][\A p \in Procs :
            (pc[p] = "poll_read" /\ pc'[p] = "poll_check")
                => all_pids'[p] = RegisteredPids]_vars

\* every process has registered, not in the order of the process numbers,
\* and a process has read the full roster
C11_Witness ==
    /\ Len(regs) = NumProcs
    /\ regs[1].pid # Pid(1)
    /\ \E p \in Procs :
          /\ pc[p] = "poll_check"
          /\ Len(all_pids[p]) = NumProcs
          /\ all_pids[p] = RegisteredPids

\* process p has registered and is in or past the polling loop of log_pids
InQuorumWait(p) == \E i \in 1..Len(regs) : regs[i].pid = Pid(p)

(* C12: the quorum wait of log_pids stays in its loop only while fewer than
   expected_count pids are seen and the timeout has not elapsed, leaves the
   loop after at most the timeout plus one poll interval, and never ends by
   raising an error. *)
C12_QuorumWaitReturns ==
    \A p \in Procs :
        InQuorumWait(p) =>
            /\ exc[p] = "none"
            /\ waited[p] <= BARRIER_TIMEOUT + 1
            /\ pc[p] = "poll_sleep" =>
                  (Len(all_pids[p]) < total_workers /\ waited[p] <= BARRIER_TIMEOUT)
            /\ pc[p] \in {"elect", "lp_done"} =>
                  (Len(all_pids[p]) >= total_workers \/ waited[p] > BARRIER_TIMEOUT)

\* C12 without the part about errors: the loop of a wait that is not hit by
\* a lock timeout ends on quorum or on the first poll after the timeout
C12_LoopBounded ==
    \A p \in Procs :
        (InQuorumWait(p) /\ exc[p] = "none") =>
            /\ waited[p] <= BARRIER_TIMEOUT + 1
            /\ pc[p] = "poll_sleep" =>
                  (Len(all_pids[p]) < total_workers /\ waited[p] <= BARRIER_TIMEOUT)
            /\ pc[p] \in {"elect", "lp_done"} =>
                  (Len(all_pids[p]) >= total_workers \/ waited[p] > BARRIER_TIMEOUT)

\* the set of pids in a roster
PidSet(pids) == {pids[i] : i \in 1..Len(pids)}

(* C13: a process that reads a non-empty roster at the end of the barrier is
   leader iff its own pid is the minimum of that roster, exactly one pid of
   the roster is that minimum, and an empty roster makes nobody leader. *)
C13_LeaderIsMinPid ==
    \A p \in Procs :
        (pc[p] = "lp_done" /\ exc[p] = "none") =>
            /\ all_pids[p] # <<>> =>
                  /\ is_leader[p] <=>
                        (Pid(p) \in PidSet(all_pids[p])
                         /\ \A x \in PidSet(all_pids[p]) : Pid(p) <= x)
                  /\ Cardinality({x \in PidSet(all_pids[p]) :
                                    \A y \in PidSet(all_pids[p]) : x <= y}) = 1
            /\ all_pids[p] = <<>> => ~is_leader[p]
            /\ ~IsLeader(<<>>, Pid(p))

\* a process that registered second has left the barrier as the leader of a
\* full roster, another one as a follower
C13_Witness ==
    \E p, q \in Procs :
        /\ pc[p] = "lp_done" /\ exc[p] = "none"
        /\ pc[q] = "lp_done" /\ exc[q] = "none"
        /\ Len(all_pids[p]) = NumProcs
        /\ all_pids[p][1] # Pid(p)
        /\ is_leader[p]
        /\ ~is_leader[q]

(* ------------- specification: life of the scalar regions -------------- *)

NextLife ==
    \E p \in Procs :
        \/ LifeStart(p)
        \/ LifeInitAcquire(p)
        \/ LifeInitTimeout(p)
        \/ LifeInitAttach(p)
        \/ LifeInitCreate(p)
        \/ LifeGot(p)
        \/ SetBootLock(p)
        \/ SetBootLockTimeout(p)
        \/ SetBootWrite(p)
        \/ GetShutdownCall(p)
        \/ GsInitAcquire(p)
        \/ GsInitTimeout(p)
        \/ GsInitAttach(p)
        \/ GsLock(p)
        \/ GsLockTimeout(p)
        \/ GsRead(p)
        \/ GsReturn(p)
        \/ GetBootCall(p)
        \/ GbInitAcquire(p)
        \/ GbInitTimeout(p)
        \/ GbInitAttach(p)
        \/ GbCold(p)
        \/ GbLock(p)
        \/ GbLockTimeout(p)
        \/ GbRead(p)
        \/ GbReturn(p)
        \/ LifeStop(p)
        \/ SsLock(p)
        \/ SsLockTimeout(p)
        \/ SsWrite(p)
        \/ CleanClose(p)
        \/ CleanUnlink(p)

SpecLife == InitLife /\ [][NextLife]_vars

\* the region an operation of process p has attached to
OpRegion(p) == IF op[p] = "get_shutdown_flag" THEN "shutdown" ELSE "boot_time"

\* process p uses instance i of region r: through its lifespan() handle,
\* which has not gone through shm_cleanup, or through the handle of a
\* running operation
Uses(p, r, i) ==
    \/ life[p][r].shm = i /\ <<p, r>> \notin closed
    \/ op[p] # "none" /\ OpRegion(p) = r /\ hnd[p].shm = i

(* C14: a segment instance leaves the OS only through the unlink of its
   creator's clean-up, and at that moment every other process that attached
   to it has closed its handle: no process is still using it. *)
C14_UnlinkByCreatorAfterAllClosed ==
    [][\A r \in ScalarRegions :
          (seg[r] # 0 /\ seg'[r] = 0) =>
              \E c \in Procs :
                  /\ pc[c] = "cl_unlink"
                  /\ pc'[c] # "cl_unlink"
                  /\ life[c][r] = [shm |-> seg[r], creator |-> TRUE]
                  /\ \A q \in Procs \ {c} : ~Uses(q, r, seg[r])]_vars

\* C14 without the order of the closes: the current instance of a name is
\* unlinked by the clean-up of the process that created it
C14_UnlinkByCreator ==
    [][\A r \in ScalarRegions :
          (seg[r] # 0 /\ seg'[r] = 0) =>
              \E c \in Procs :
                  /\ pc[c] = "cl_unlink"
                  /\ pc'[c] # "cl_unlink"
                  /\ life[c][r] = [shm |-> seg[r], creator |-> TRUE]]_vars

(* C16 as stated, for every return of shm_initialize: when the name exists
   the caller gets a handle to it with is_creator = False and nothing is
   created or changed; when it does not exist and create is set, the caller
   gets a new zero-filled segment with is_creator = True; when it does not
   exist and create is not set, the caller gets (None, False) and nothing is
   created; no error is raised. *)
C16_InitAsStated ==
    [][\A p \in Procs :
          LET r == IF pc[p] \in {"lf_init", "lf_init_in", "lf_create"} THEN LifeRegion(p)
                   ELSE IF pc[p] \in {"gs_init", "gs_init_in"} THEN "shutdown"
                   ELSE "boot_time"
              create == pc[p] \in {"lf_init", "lf_init_in", "lf_create"}
          IN  (/\ pc[p] \in {"lf_init", "lf_init_in", "lf_create",
                             "gs_init", "gs_init_in", "gb_init", "gb_init_in"}
               /\ pc'[p] \in {"lf_got", "gs_lock", "gb_lock", "gb_cold"})
              => /\ exc'[p] = "none"
                 /\ seg[r] # 0 =>
                       /\ hnd'[p].shm = seg[r] /\ ~creator'[p]
                       /\ seg' = seg /\ made' = made /\ scalar' = scalar
                 /\ (seg[r] = 0 /\ create) =>
                       /\ seg'[r] # 0 /\ made'[r] = made[r] + 1
                       /\ hnd'[p].shm = seg'[r] /\ creator'[p]
                       /\ scalar'[r][seg'[r]] = 0
                 /\ (seg[r] = 0 /\ ~create) =>
                       /\ hnd'[p].shm = None /\ ~creator'[p]
                       /\ seg' = seg /\ made' = made]_vars

(* C16 amended: the same for every return of shm_initialize that got the
   initialisation lock; a call whose five attempts at the lock all timed out
   returns (None, False), creates nothing and changes nothing. *)
C16_InitUnderLock ==
    [][\A p \in Procs :
          LET r == IF pc[p] \in {"lf_init", "lf_init_in", "lf_create"} THEN LifeRegion(p)
                   ELSE IF pc[p] \in {"gs_init", "gs_init_in"} THEN "shutdown"
                   ELSE "boot_time"
              create == pc[p] \in {"lf_init", "lf_init_in", "lf_create"}
          IN  /\ (/\ pc[p] \in {"lf_init_in", "lf_create", "gs_init_in", "gb_init_in"}
                  /\ pc'[p] \in {"lf_got", "gs_lock", "gb_lock", "gb_cold"})
                 => /\ exc'[p] = "none"
                    /\ seg[r] # 0 =>
                          /\ hnd'[p].shm = seg[r] /\ ~creator'[p]
                          /\ seg' = seg /\ made' = made /\ scalar' = scalar
                    /\ (seg[r] = 0 /\ create) =>
                          /\ seg'[r] # 0 /\ made'[r] = made[r] + 1
                          /\ hnd'[p].shm = seg'[r] /\ creator'[p]
                          /\ scalar'[r][seg'[r]] = 0
                    /\ (seg[r] = 0 /\ ~create) =>
                          /\ hnd'[p].shm = None /\ ~creator'[p]
                          /\ seg' = seg /\ made' = made
              /\ (/\ pc[p] \in {"lf_init", "gs_init", "gb_init"}
                  /\ pc'[p] \in {"lf_got", "gs_lock", "gb_cold"})
                 => /\ tries[p] = INIT_RETRIES - 1
                    /\ exc'[p] = "none"
                    /\ hnd'[p].shm = None /\ ~creator'[p]
                    /\ seg' = seg /\ made' = made /\ scalar' = scalar]_vars

\* all three cases have returned: a process created a region, another one
\* attached to it, and an attach-only call found no segment
C16_Witness ==
    \E p, q \in Procs : \E r \in ScalarRegions :
        /\ p # q
        /\ life[p][r].creator /\ life[p][r].shm # None
        /\ life[q][r] = [shm |-> life[p][r].shm, creator |-> FALSE]
        /\ pc[q] = "gb_cold"
        /\ tries[q] = 0
        /\ seg["boot_time"] = 0

(* C17: an operation whose attach-only initialisation found no segment of
   its store is a no-op: it raises no error and returns the default value
   of its store. *)
C17_ColdOpsAreNoOps ==
    \A p \in Procs :
        (/\ pc[p] \in {"gs_ret", "gb_ret"}
         /\ hnd[p].shm = None
         /\ tries[p] # INIT_RETRIES)
            => exc[p] \in {"none", "TimeoutError"} /\ (exc[p] = "none" => ret[p] = 0)

\* C17 for get_boot_time alone, which tests the handle before it uses it
C17_ColdBootTimeIsNoOp ==
    \A p \in Procs :
        (pc[p] = "gb_ret" /\ hnd[p].shm = None /\ tries[p] # INIT_RETRIES)
            => exc[p] = "none" /\ ret[p] = 0

(* ------------------ specification: the clean-up calls ------------------ *)

NextCleanup ==
    \E p \in Procs :
        \/ LifeStop(p)
        \/ SsLock(p)
        \/ SsLockTimeout(p)
        \/ SsWrite(p)
        \/ CleanClose(p)
        \/ CleanUnlink(p)

SpecCleanup == InitCleanup /\ [][NextCleanup]_vars

(* C15: shm_cleanup of a handle that is not the creator's closes the
   mapping and leaves every name in the OS; shm_cleanup of a creator's
   handle whose name is already gone raises nothing and leaves every segment
   as it is; no step of shm_cleanup raises an error. *)
C15_CleanupIsSafe ==
    [][\A p \in Procs :
          (pc[p] \in {"cl_close", "cl_unlink"} /\ pc'[p] # pc[p]) =>
              /\ exc'[p] = "none"
              /\ pc'[p] \in {"cl_close", "cl_unlink", "stopped"}
              /\ <<p, CleanRegion(p)>> \in closed'
              /\ scalar' = scalar
              /\ \A r \in AllRegions \ {CleanRegion(p)} : seg'[r] = seg[r]
              /\ ~life[p][CleanRegion(p)].creator => seg' = seg
              /\ seg[CleanRegion(p)] = 0 => seg' = seg]_vars

\* a creator has unlinked a name that was already gone, and a process that
\* only attached has cleaned up a name that is still there
C15_Witness ==
    \E p, q \in Procs : \E r, t \in ScalarRegions :
        /\ pc[p] = "stopped"
        /\ life[p][r] = [shm |-> 1, creator |-> TRUE]
        /\ seg[r] = 0
        /\ \A c \in Procs \ {p} : ~life[c][r].creator
        /\ pc[q] = "stopped"
        /\ life[q][t] = [shm |-> 1, creator |-> FALSE]
        /\ seg[t] = 1

(* ---------------- specification: logging into the ring --------------- *)

NextEmit ==
    \E p \in Procs :
        \/ InitializeLogHandler(p)
        \/ LogCall(p)
        \/ ApInitAcquire(p)
        \/ ApInitTimeout(p)
        \/ ApInitAttach(p)
        \/ ApLock(p)
        \/ ApLockTimeoutLogged(p)
        \/ IncInitAcquire(p)
        \/ IncInitTimeoutLogged(p)
        \/ IncGiveUpLogged(p)
        \/ IncInitAttach(p)
        \/ IncLock(p)
        \/ IncLockTimeoutLogged(p)
        \/ IncRead(p)
        \/ IncWrite(p)
        \/ IncUnlock(p)
        \/ AddLogAfterInc(p)
        \/ AddLogCaughtLogged(p)
        \/ ApHdr(p)
        \/ ApSlot(p)
        \/ ApCount(p)
        \/ ApNext(p)
        \/ EmitCatch(p)
        \/ LogLineReturn(p)
        \/ LogReturn(p)
        \/ StreamStart(p)
        \/ GetCounterInitAcquire(p)
        \/ GetCounterInitTimeout(p)
        \/ GetCounterInitTimeoutLogged(p)
        \/ GetCounterGiveUpLogged(p)
        \/ GetCounterInitAttach(p)
        \/ GetCounterCold(p)
        \/ GetCounterLock(p)
        \/ GetCounterLockTimeout(p)
        \/ GetCounterLockTimeoutLogged(p)
        \/ GetCounterRead(p)
        \/ GetCounterReturn(p)
        \/ StopLogHandler(p)

SpecEmit == InitRunning /\ [][NextEmit]_vars

\* the call at the bottom of the call stack of process p
TopOp(p) == IF frames[p] = <<>> THEN op[p] ELSE frames[p][1].op

\* the record of the running append of p is in a slot written to the ring
Stored(p) == \E i \in 1..Len(stored["logs"]) : stored["logs"][i] = arg[p]

(* C18: when add_log_to_shm is about to return into its caller, an append
   that timed out on a lock ends with TimeoutError and has written no slot,
   and an append that attached to the ring and ends without error has
   written its record into a slot. *)
C18_TimeoutRaisesElseStored ==
    \A p \in Procs :
        (pc[p] = "ap_ret" /\ op[p] = "add_log" /\ hnd[p].shm # None) =>
            /\ exc[p] \in {"none", "TimeoutError"}
            /\ exc[p] = "TimeoutError" => ~Stored(p)
            /\ exc[p] = "none" => Stored(p)

\* C18 for the mutex of the ring alone: an append that timed out on the
\* logs LOCK ends with TimeoutError and its record is in no slot
C18_RingLockTimeoutRaises ==
    [][\A p \in Procs :
          (pc[p] = "ap_lock" /\ pc'[p] # "ap_lock" /\ dataLock["logs"] \notin {NoProc, p})
              => /\ ~Stored(p)
                 /\ stored' = stored /\ ring' = ring
                 /\ \/ pc'[p] = "ap_ret" /\ exc'[p] = "TimeoutError"
                    \/ /\ pc'[p] = "ap_init"
                       /\ frames'[p][Len(frames'[p])].at = "ap_ret"
                       /\ frames'[p][Len(frames'[p])].exc = "TimeoutError"]_vars

(* C19: LogHandler.emit never ends with an exception: whatever
   add_log_to_shm raised, the logging call returns normally. *)
C19_EmitAbsorbsFailures ==
    \A p \in Procs : pc[p] = "em_ret" => exc[p] = "none"

\* add_log_to_shm raised TimeoutError into the emit of an application's
\* logging call, and the emit has ended
C19_Witness ==
    \E p \in Procs :
        /\ pc[p] = "em_ret"
        /\ frames[p] = <<>>
        /\ failed[p] = "TimeoutError"

(* C20: a logging call waits out at most one lock timeout, and an append
   whose acquisition of the logs LOCK timed out starts no other append:
   no add_log_to_shm is suspended at the error line of its `except
   Timeout` while the handler appends that line. *)
C20_NoReentryOnTimeout ==
    \A p \in Procs :
        /\ TopOp(p) = "add_log" => periods[p] <= 1
        /\ \A i \in 1..Len(frames[p]) :
              ~(/\ frames[p][i].op = "add_log"
                /\ frames[p][i].at = "ap_ret"
                /\ frames[p][i].exc = "TimeoutError")

(* ---------------- specification: the brute-force guard ---------------- *)

NextAuth ==
    \E p \in Procs :
        \/ LoginCall(p)
        \/ RgInitAcquire(p)
        \/ RgInitTimeout(p)
        \/ RgInitAttach(p)
        \/ RgCold(p)
        \/ RgLock(p)
        \/ RgLockTimeout(p)
        \/ RgRead(p)
        \/ LoginChecked(p)
        \/ FailedCounted(p)
        \/ ApInitAcquire(p)
        \/ ApInitTimeout(p)
        \/ ApInitAttach(p)
        \/ ApLock(p)
        \/ ApLockTimeout(p)
        \/ ApHdr(p)
        \/ ApSlot(p)
        \/ ApCount(p)
        \/ ApNext(p)
        \/ LoginDone(p)

SpecAuth == InitRunning /\ [][NextAuth]_vars

\* the attempts the auth ring holds, oldest first, from the history of writes
InRing == LastN(stored["auth"], ring["auth"].count)

\* positions in InRing of the failures of an address that count at `now`:
\* after the last success of the address and inside the window
Series(client_ip, now) ==
    {i \in 1..Len(InRing) :
        /\ InRing[i].ip = client_ip
        /\ InRing[i].success = "0"
        /\ InRing[i].ts >= now - window_seconds
        /\ \A j \in (i + 1)..Len(InRing) :
              ~(InRing[j].ip = client_ip /\ InRing[j].success = "1")}

(* C21: when the failed attempts of one address are processed one after
   another (no attempt of that address is recorded between the read and the
   append of process_failed_attempt), the failure that is the
   max_attempts-th of its series inside the window, counting only failures
   after the last success of the address, is appended with
   unlock_time = now + lockout_time, and every earlier failure of the series
   with unlock_time = 0. *)
C21_ThresholdFailureBans ==
    [][\A p \in Procs :
          (/\ pc[p] = "ap_slot"
           /\ pc'[p] = "ap_count"
           /\ flow[p].at = "add_failed"
           /\ OfIp(InRing, flow[p].ip) = flow[p].seen)
              => LET n == Cardinality(Series(flow[p].ip, flow[p].now))
                     rec == stored'["auth"][Len(stored'["auth"])]
                 IN  /\ rec.ip = flow[p].ip
                     /\ rec.ts = flow[p].now
                     /\ rec.success = "0"
                     /\ n + 1 = max_attempts
                           => rec.unlock_time = flow[p].now + lockout_time
                     /\ n + 1 < max_attempts => rec.unlock_time = 0]_vars

\* the ring holds a series of one address whose last failure carries the
\* ban and whose earlier failure carries none, and a failure of the same
\* address that fell out of the window was not counted
C21_Witness ==
    /\ dataLock["auth"] = NoProc
    /\ Len(InRing) = max_attempts
    /\ \A i \in 1..Len(InRing) : InRing[i].ip = InRing[1].ip /\ InRing[i].success = "0"
    /\ \A i \in 1..(max_attempts - 1) : InRing[i].unlock_time = 0
    /\ InRing[max_attempts].unlock_time = InRing[max_attempts].ts + lockout_time
    /\ InRing[max_attempts].ts > InRing[1].ts

\* the most recent attempt of the address among recs carries
\* unlock_time > now
BannedIn(recs, client_ip, now) ==
    \E i \in 1..Len(recs) :
        /\ recs[i].ip = client_ip
        /\ recs[i].unlock_time > now
        /\ \A j \in (i + 1)..Len(recs) : recs[j].ip # client_ip

\* the same for the attempts the ring holds
BannedAt(client_ip, now) == BannedIn(InRing, client_ip, now)

\* the request of p is turned away: it ends without having called
\* process_failed_attempt or add_auth_attempt_to_shm, and the ring is as
\* it was
TurnedAway(p) ==
    /\ pc'[p] = "idle"
    /\ flow'[p] = ZeroFlow
    /\ ring' = ring
    /\ stored' = stored

(* C22: when is_ip_locked has attached to the auth segment and reads it,
   under the lock, while the most recent stored attempt of the address has
   unlock_time > now, it reports the address as locked; auth_login_flow then
   turns the request away, and no step of a request that is still in
   is_ip_locked writes to the auth ring. *)
C22_LockedIsRejected ==
    [][\A p \in Procs :
          /\ (/\ flow[p].at = "is_ip_locked"
              /\ pc[p] = "rg_read"
              /\ pc'[p] = "rg_ret"
              /\ BannedAt(flow[p].ip, flow[p].now))
                 => BannedIn(ret'[p], flow[p].ip, flow[p].now)
          /\ (/\ flow[p].at = "is_ip_locked"
              /\ pc[p] = "rg_ret"
              /\ pc'[p] # "rg_ret"
              /\ exc[p] = "none"
              /\ BannedIn(ret[p], flow[p].ip, flow[p].now))
                 => TurnedAway(p)
          /\ (flow[p].at = "is_ip_locked" /\ pc'[p] # pc[p])
                 => ring' = ring]_vars

\* is_ip_locked has read a ring whose most recent attempt of the address
\* bans it, and the request is about to be turned away
C22_Witness ==
    \E p \in Procs :
        /\ flow[p].at = "is_ip_locked"
        /\ pc[p] = "rg_ret"
        /\ hnd[p].shm # None
        /\ exc[p] = "none"
        /\ BannedAt(flow[p].ip, flow[p].now)
        /\ BannedIn(ret[p], flow[p].ip, flow[p].now)

\* every attempt ever recorded, in the order of the writes
Recorded == stored["auth"]

(* C28: whenever no process is inside the critical section of the auth
   ring: if a failure of an address was recorded with unlock_time U > now
   and no success of that address was recorded after it, is_ip_locked
   reports the address as locked at the present time. *)
C28_BanStays ==
    dataLock["auth"] = NoProc =>
        \A i \in 1..Len(Recorded) :
            (/\ Recorded[i].success = "0"
             /\ Recorded[i].unlock_time > clock
             /\ \A j \in (i + 1)..Len(Recorded) :
                   ~(Recorded[j].ip = Recorded[i].ip /\ Recorded[j].success = "1"))
                => IsIpLocked(ReadAuth(ring["auth"], 0), Recorded[i].ip, clock) # None

(* C29: whenever no process is inside the critical section of the auth
   ring: if the ring holds at least max_attempts failures of an address
   inside the window and after its last success, one of them carries
   unlock_time > 0. *)
C29_ThresholdImpliesBan ==
    dataLock["auth"] = NoProc =>
        \A client_ip \in Ips :
            Cardinality(Series(client_ip, clock)) >= max_attempts
                => \E i \in Series(client_ip, clock) : InRing[i].unlock_time > 0

(* C30: in one start-up of a process group at most one process has
   evaluated itself as leader in log_pids. *)
C30_AtMostOneLeader ==
    Cardinality({p \in Procs : is_leader[p]}) <= 1

(* ------------------- specification: _shorten_message ------------------- *)

NextText == ShortenFits \/ ShortenFor \/ ShortenWhile \/ ShortenCut

SpecText == InitText /\ [][NextText]_vars

(* C23: for every text, every max_len >= 0 and every suffix the result of
   _shorten_message encodes to at most max_len bytes, and the bytes kept
   from the message end between two characters. *)
C23_ShortenFitsWidth ==
    cut.at = "done" =>
        /\ Len(Encode(cut.short)) <= cut.max_len
        /\ \E k \in 0..Len(cut.message) : cut.kept = Encode(SubSeq(cut.message, 1, k))

\* text a is the beginning of text b
IsPrefix(a, b) == Len(a) <= Len(b) /\ a = SubSeq(b, 1, Len(a))

(* C40: _shorten_message returns the text unchanged when its UTF-8 encoding
   has at most max_len bytes; when the text is longer and max_len is smaller
   than the byte length of the suffix the result is a prefix of the suffix;
   otherwise the result is a prefix of the text followed by the complete
   suffix. *)
C40_ShortenShape ==
    cut.at = "done" =>
        IF Len(Encode(cut.message)) <= cut.max_len
        THEN cut.short = cut.message
        ELSE IF cut.max_len < Len(Encode(cut.suffix))
        THEN IsPrefix(cut.short, cut.suffix)
        ELSE \E k \in 0..Len(cut.message) :
                 cut.short = SubSeq(cut.message, 1, k) \o cut.suffix

\* a text of nine bytes cut to width six: the loop stepped back out of the
\* second character, one character is kept and the suffix follows
C40_Witness ==
    /\ cut.at = "done"
    /\ Len(Encode(cut.message)) > cut.max_len
    /\ cut.max_len > Len(Encode(cut.suffix))
    /\ cut.suffix # <<>>
    /\ cut.end < cut.max_len - Len(Encode(cut.suffix)) - 1
    /\ cut.short = <<Head(cut.message)>> \o cut.suffix

(* ---------------- specification: the settings descriptors -------------- *)

NextConf ==
    \/ SecondPasses
    \/ \E p \in Procs :
        \/ GetStat(p)
        \/ GetReadShm(p)
        \/ GetReadFile(p)
        \/ GetWriteShm(p)
        \/ SetCall(p)
        \/ SetLock(p)
        \/ SetLockTimeout(p)
        \/ SetReadFile(p)
        \/ SetOpen(p)
        \/ SetDump(p)
        \/ SetStat(p)
        \/ SetWriteShm(p)
        \/ SaveOpen(p)
        \/ SaveDump(p)

SpecConf == InitSettings /\ [][NextConf]_vars

(* C27: when no settings read or write is under way and the version stamp
   of the settings segment equals the modification time of settings.yml,
   the payload of the segment is the configuration derived from the
   content of the file. *)
C27_CacheCoherent ==
    (/\ \A p \in Procs : cfg[p].at = "idle"
     /\ cache.mtime = file.mtime)
        => cache.data = MergeWithDefaults(file.data)

(* C25: whenever no process holds the mutex of the log ring, the log
   counter equals the number of records written to the log ring since its
   creation, modulo MAX_VALUE: every add_log_to_shm call that wrote its
   record also incremented the counter, and the other way round. *)
C25_CounterMatchesAppends ==
    dataLock["logs"] = NoProc => counter = Len(stored["logs"]) % MAX_VALUE


(* ------------------------- the ring headers -------------------------- *)

\* the header of ring r agrees with the number of records written to it
\* since the segment was created
HeaderAgrees(r) ==
    /\ ring[r].count = Min(Len(stored[r]), MAX_BUFFER_SIZE)
    /\ ring[r].next_idx = Len(stored[r]) % MAX_BUFFER_SIZE
    /\ ring[r].count < MAX_BUFFER_SIZE => ring[r].next_idx = ring[r].count

\* both header fields of ring r are in range
HeaderInRange(r) ==
    /\ ring[r].count \in 0..MAX_BUFFER_SIZE
    /\ ring[r].next_idx \in 0..(MAX_BUFFER_SIZE - 1)

(* C24 as stated: in every reachable state of a ring region, count =
   min(appends, capacity), next_write_index = appends mod capacity, both
   are in range, and while count < capacity next_write_index = count. *)
C24_HeaderInEveryState ==
    \A r \in RingNames : HeaderInRange(r) /\ HeaderAgrees(r)

(* C24: in every reachable state of a ring region count and
   next_write_index are in range; whenever no process holds the mutex of
   the ring, count = min(number of appends made since the segment was
   created, capacity), next_write_index = that number mod capacity, and
   while count < capacity next_write_index = count. *)
C24_HeaderWhenUnlocked ==
    \A r \in RingNames :
        /\ HeaderInRange(r)
        /\ dataLock[r] = NoProc => HeaderAgrees(r)

\* a ring that has wrapped: more records written than it has slots, lock free
C24_Witness ==
    \E r \in RingNames :
        /\ dataLock[r] = NoProc
        /\ Len(stored[r]) > MAX_BUFFER_SIZE
        /\ ring[r].count = MAX_BUFFER_SIZE
        /\ ring[r].next_idx = Len(stored[r]) % MAX_BUFFER_SIZE


(* -------------------------- lock discipline -------------------------- *)

\* the regions a ring specification works on
Guarded == RingNames \cup {"logs_counter"}

\* positions between the entry and the exit of `with LOCK:` of the counter
CounterSection == {"inc_read", "inc_write", "inc_unlock", "get_read"}

\* positions between the entry and the exit of `with LOCK:` of a ring; the
\* nested inc_logs_counter() of add_log_to_shm runs inside it
RingSection == {"inc_init", "inc_init_in", "inc_lock", "inc_read", "inc_write",
                "inc_unlock", "inc_ret", "ap_hdr", "ap_slot", "ap_count",
                "ap_next", "rg_read"}

\* process p is inside the critical section of region r
InSection(p, r) ==
    IF r = "logs_counter"
    THEN pc[p] \in CounterSection
    ELSE RingOf(p) = r /\ pc[p] \in RingSection

\* the bytes of region r
Bytes(r) == IF r = "logs_counter" THEN <<counter>> ELSE <<ring[r]>>

\* process p takes a step
Steps(p) == pc'[p] # pc[p]

(* C26: every read and every write of a region's bytes by a store operation
   happens while the calling process holds the mutex of that region, and no
   two processes are inside the critical section of one region at the same
   time. *)
C26_LockDiscipline ==
    /\ [](\A r \in Guarded :
            /\ \A p \in Procs : InSection(p, r) => dataLock[r] = p
            /\ \A p, q \in Procs :
                   (InSection(p, r) /\ InSection(q, r)) => p = q)
    /\ [][\A r \in Guarded :
            Bytes(r)' # Bytes(r) =>
                /\ dataLock[r] # NoProc
                /\ InSection(dataLock[r], r)
                /\ Steps(dataLock[r])]_vars

\* one process is writing a slot of the log ring, holding its mutex and
\* having incremented the counter under the mutex of the counter, while
\* another process waits for the mutex of the log ring
C26_Witness ==
    \E p, q \in Procs :
        /\ p # q
        /\ pc[p] = "ap_slot" /\ op[p] = "add_log"
        /\ dataLock["logs"] = p
        /\ hnd[p].ctr # None
        /\ pc[q] \in {"ap_lock", "rg_lock"} /\ RingOf(q) = "logs"


(* ------------- specification: reads of a ring with bad slots ----------- *)

\* what the size word of a slot may hold: the size of a record, zero, or a
\* size that is off by one
SizeWords(r) == {EntrySize(r), 0, EntrySize(r) + 1}

\* the k-th record written to ring r
RecordNo(r, k) ==
    IF r = "logs" THEN [id |-> k, ts |-> 0] ELSE PackAttempt(k, 1, k, FALSE, 0)

\* ring r after n appends, the size word of slot i then overwritten by sz[i]
Damaged(r, n, sz) ==
    [count |-> Min(n, MAX_BUFFER_SIZE),
     next_idx |-> n % MAX_BUFFER_SIZE,
     slots |-> [i \in 0..(MAX_BUFFER_SIZE - 1) |->
                  LET last == CHOOSE k \in 0..n :
                                  /\ k = 0 \/ (k - 1) % MAX_BUFFER_SIZE = i
                                  /\ \A m \in (k + 1)..n : (m - 1) % MAX_BUFFER_SIZE # i
                  IN  IF last = 0
                      THEN ZeroSlot
                      ELSE [size |-> sz[i], data |-> RecordNo(r, last)]]]

\* both rings hold up to MAX_BUFFER_SIZE + 1 records and any size words
InitDamaged ==
    /\ InitIdle
    /\ InitExt
    /\ counter = 0
    /\ blob = ZeroBlob
    /\ okAppends = [r \in RingNames |-> {}]
    /\ \E n \in 0..(MAX_BUFFER_SIZE + 1) :
       \E at \in [0..(MAX_BUFFER_SIZE - 1) -> 1..3] :
          LET word(r, k) == IF k = 1 THEN EntrySize(r)
                            ELSE IF k = 2 THEN 0 ELSE EntrySize(r) + 1
          IN  /\ ring = [r \in RingNames |->
                           Damaged(r, n, [i \in 0..(MAX_BUFFER_SIZE - 1) |-> word(r, at[i])])]
              /\ stored = [r \in RingNames |-> [k \in 1..n |-> RecordNo(r, k)]]

NextSkip ==
    \E p \in Procs :
        \/ GetLogsCall(p)
        \/ GetAuthCall(p)
        \/ RgInitAcquire(p)
        \/ RgInitTimeout(p)
        \/ RgInitAttach(p)
        \/ RgCold(p)
        \/ RgLock(p)
        \/ RgLockTimeout(p)
        \/ RgRead(p)
        \/ RgReturn(p)

SpecSkip == InitDamaged /\ [][NextSkip]_vars

\* the number of slots a read of ring r with argument a looks at
Asked(r, a) == IF r = "logs" THEN Min(ring[r].count, a) ELSE ring[r].count

\* the j-th slot, oldest first, of the n slots a read of ring r looks at
Looked(r, n, j) == ring[r].slots[(ring[r].next_idx - n + j - 1) % MAX_BUFFER_SIZE]

\* among the first j of those slots, the ones that declare the size of a record
Sound(r, n, j) == {k \in 1..j : Looked(r, n, k).size = EntrySize(r)}

(* C33: a ring read skips every slot of its range whose declared size is
   not the record size and returns all the other records of the range, in
   their order, without raising. *)
C33_BadSlotsSkipped ==
    [][\A p \in Procs :
          (/\ pc[p] = "rg_read" /\ pc'[p] = "rg_ret"
           /\ op[p] = "get_auth" => arg[p] = 0)
              => LET r == RingOf(p)
                     n == Asked(r, arg[p])
                 IN  /\ exc'[p] = "none"
                     /\ Len(ret'[p]) = Cardinality(Sound(r, n, n))
                     /\ \A j \in Sound(r, n, n) :
                            ret'[p][Cardinality(Sound(r, n, j))] = Looked(r, n, j).data]_vars

\* a read of the whole log ring found the older of its two slots with a
\* wrong size word and has returned the newer record alone
C33_Witness ==
    \E p \in Procs :
        /\ pc[p] = "rg_ret" /\ op[p] = "get_logs" /\ exc[p] = "none"
        /\ hnd[p].shm # None
        /\ arg[p] >= MAX_BUFFER_SIZE
        /\ ring["logs"].count = MAX_BUFFER_SIZE
        /\ Looked("logs", MAX_BUFFER_SIZE, 1).size # LOG_ENTRY_SIZE
        /\ \A j \in 2..MAX_BUFFER_SIZE : Looked("logs", MAX_BUFFER_SIZE, j).size = LOG_ENTRY_SIZE
        /\ Len(ret[p]) = MAX_BUFFER_SIZE - 1
        /\ ret[p][MAX_BUFFER_SIZE - 1] = Looked("logs", MAX_BUFFER_SIZE, MAX_BUFFER_SIZE).data


(* ------------------ specification: packing one field ------------------- *)

\* one field of a record is about to be packed
InitPack ==
    /\ InitIdle
    /\ InitMemory
    /\ InitOs
    /\ InitGuard
    /\ InitConf
    /\ crypto = ZeroEntry
    /\ keyLock = NoProc
    /\ kc = [p \in Procs |-> ZeroKc]
    /\ minted = {}
    /\ client = [p \in Procs |-> ZeroClient]
    /\ \E entry \in Entries, value \in Texts(MaxChars) :
          /\ packed = [ZeroPacked EXCEPT !.entry = entry, !.value = value,
                          !.at = IF entry \in Shortened THEN "shorten" ELSE "encode"]
          /\ cut = IF entry \in Shortened
                   THEN [ZeroCut EXCEPT !.message = value, !.suffix = SuffixOf(entry),
                                        !.max_len = ENTRY_SIZES(entry), !.at = "call"]
                   ELSE ZeroCut

NextPack ==
    \/ ShortenFits
    \/ ShortenFor
    \/ ShortenWhile
    \/ ShortenCut
    \/ PackShortened
    \/ PackField

SpecPack == InitPack /\ [][NextPack]_vars

(* C39: the stored bytes of every packed field are the encoding of whole
   characters, a prefix of the field's text, right-padded with spaces to
   exactly the width of the field. *)
C39_FieldsCutBetweenCharacters ==
    packed.at = "done" =>
        /\ Len(packed.data) = ENTRY_SIZES(packed.entry)
        /\ \E k \in 0..Len(packed.value) :
               LET whole == Encode(SubSeq(packed.value, 1, k))
               IN  /\ Len(whole) <= ENTRY_SIZES(packed.entry)
                   /\ packed.data = whole \o Spaces(ENTRY_SIZES(packed.entry) - Len(whole))


(* -------------------- specification: the crypto store ------------------ *)

NextKeys ==
    \/ SecondPasses
    \/ \E p \in Procs :
        \/ SetKeysCall(p)
        \/ SetKeysLock(p)
        \/ SetKeysLockTimeout(p)
        \/ SetKeysWrite(p)
        \/ JwkCall(p)
        \/ RefreshLock(p)
        \/ RefreshLockTimeout(p)
        \/ RefreshRead(p)
        \/ LastRotationLock(p)
        \/ LastRotationLockTimeout(p)
        \/ LastRotationRead(p)
        \/ PublicKeyLock(p)
        \/ PublicKeyLockTimeout(p)
        \/ PublicKeyRead(p)
        \/ JwkBuild(p)
        \/ KeyReturn(p)

SpecKeys == InitRunning /\ [][NextKeys]_vars

(* C31: the stored priv_len and pub_len never exceed the capacities of
   their byte fields, and a set_keys call with a longer key leaves the
   stored entry as it was. *)
C31_LengthsFitFields ==
    /\ [](crypto.priv_len <= PRIV_BYTES /\ crypto.pub_len <= PUB_BYTES)
    /\ [][\A p \in Procs :
            (kc[p].at = "set_write" /\ kc'[p].at = "ret" /\ kc[p].long)
                => crypto' = crypto]_vars

(* C36: the rotation timestamp and the public key that get_public_key_jwk
   returns come from one stored entry. *)
C36_JwkFromOneEntry ==
    \A p \in Procs :
        (kc[p].at = "ret" /\ kc[p].jwk.n # None) =>
            <<kc[p].jwk.lr, kc[p].jwk.n>> \in minted


(* --------------- specification: a roster that fills up ---------------- *)

NextRoster ==
    \E p \in Procs :
        \/ LogPidsCall(p)
        \/ RegLock(p)
        \/ RegLockTimeout(p)
        \/ RegRead(p)
        \/ RegSlot(p)
        \/ RegCount(p)
        \/ PollLock(p)
        \/ PollLockTimeout(p)
        \/ PollRead(p)
        \/ PollCheck(p)
        \/ PollSleep(p)
        \/ Elect(p)
        \/ Respawn(p)

SpecRoster == InitRunning /\ [][NextRoster]_vars

(* C32: registered_count never exceeds the number of pid slots and never
   decreases, no register changes a slot below registered_count, and a
   register on a full roster fails and changes neither the count nor a
   slot. *)
C32_RosterOnlyGrows ==
    /\ [](roster[0] <= PidSlots)
    /\ [][/\ roster'[0] >= roster[0]
          /\ \A i \in 1..PidSlots : i <= roster[0] => roster'[i] = roster[i]
          /\ \A p \in Procs :
                (pc[p] = "reg_slot" /\ pc'[p] # "reg_slot" /\ lvalue[p] >= PidSlots)
                    => /\ roster' = roster
                       /\ exc'[p] # "none"
                       /\ pc'[p] = "lp_done"]_vars

\* a worker started anew found the roster full: its register_pid raised and
\* the roster still holds the pids of the first registrations
C32_Witness ==
    \E p \in Procs :
        /\ pc[p] = "lp_done"
        /\ exc[p] = "struct.error"
        /\ roster[0] = PidSlots
        /\ \A i \in 1..PidSlots : roster[i] = regs[i].pid


(* ------- specification: settings writes under an installed handler ------ *)

\* leaving `with LOCK:` of a store that never unlocks its file
KeptAfterReturn(owner) == owner

\* leaving `with LOCK:` of shm_settings: the only acquisition of the
\* process is released
Released(owner) == NoProc

\* write_settings_to_shm while the LogHandler is installed: inside
\* `with LOCK:`, `if len(data_bytes) > CONF["SIZE"]: logger.error(...)`;
\* the record goes through LogHandler.emit to add_log_to_shm before the
\* `return` that leaves the block
WrCheckLogged(p) ==
    /\ pc[p] = "wr_check"
    /\ TooBig(JsonDumps(arg[p][2]))
    /\ LogLine(p, "wr_toobig", "none", tries[p])
    /\ UNCHANGED <<dataLock, okAppends, periods>>

\* the size check of a process without handler, or of data that fits
WrCheckQuiet(p) ==
    /\ pc[p] = "wr_check"
    /\ ~(handlerOn[p] /\ TooBig(JsonDumps(arg[p][2])))
    /\ WrCheck(p)

\* logger.error has returned: `return` leaves `with LOCK:`
WrTooBigReturn(p) ==
    /\ pc[p] = "wr_toobig"
    /\ dataLock' = [dataLock EXCEPT !["settings"] = Released(p)]
    /\ exc' = [exc EXCEPT ![p] = TooBigOutcome.exc]
    /\ ret' = [ret EXCEPT ![p] = TooBigOutcome.ret]
    /\ pc' = [pc EXCEPT ![p] = "wr_ret"]
    /\ UNCHANGED <<seg, initLock, op, tries, hnd, creator, arg>>
    /\ UNCHANGED <<memVars, localVars, histVars, lifeVars, extVars>>

\* the writes of this specification: one stamp, the smallest dict and one
\* that does not fit
WrCallSized(p) ==
    /\ WrCall(p)
    /\ arg'[p] \in {<<1, EmptyDict>>, <<1, SETTINGS_SIZE - 1>>}

NextOrder ==
    \/ NextEmit
    \/ \E p \in Procs :
        \/ WrCallSized(p)
        \/ WrInitAcquire(p)
        \/ WrInitTimeout(p)
        \/ WrInitAttach(p)
        \/ WrLock(p)
        \/ WrLockTimeout(p)
        \/ WrCheckLogged(p)
        \/ WrCheckQuiet(p)
        \/ WrTooBigReturn(p)
        \/ WrMtime(p)
        \/ WrSize(p)
        \/ WrBytes(p)
        \/ WrReturn(p)

SpecOrder == InitRunning /\ [][NextOrder]_vars

\* the region mutexes process p holds
Holds(p) == {r \in DOMAIN dataLock : dataLock[r] = p}

\* the region mutex process p is about to request
Wants(p) ==
    CASE pc[p] = "wr_lock" -> {"settings"}
      [] pc[p] = "ap_lock" -> {"logs"}
      [] pc[p] \in {"inc_lock", "get_lock"} -> {"logs_counter"}
      [] OTHER -> {}

\* the order in which the stores nest their mutexes
Rank(r) ==
    CASE r = "settings" -> 1
      [] r = "logs" -> 2
      [] r = "logs_counter" -> 3
      [] OTHER -> 0

\* process p waits for a mutex that process q holds
WaitsFor(p, q) == p # q /\ \E r \in Wants(p) : dataLock[r] = q

\* C38 as stated: a process that holds two region mutexes holds the log
\* ring's and the log counter's, and a process that requests one while it
\* holds another holds the log ring's and requests the log counter's.
C38_OnlyRingThenCounter ==
    \A p \in Procs :
        /\ Cardinality(Holds(p)) >= 2 => Holds(p) = {"logs", "logs_counter"}
        /\ \A r \in Wants(p) :
              Holds(p) \ {r} # {} => (Holds(p) = {"logs"} /\ r = "logs_counter")

(* C38: region mutexes are acquired in the fixed order settings, log ring,
   log counter: a process that requests a mutex holds only mutexes earlier
   in that order (or, for the log ring, the ring's own mutex, which it
   re-enters); no process that holds the log counter's mutex requests any
   mutex, and no processes wait for each other's mutexes in a cycle. *)
C38_FixedOrder ==
    /\ \A p \in Procs : \A r \in Wants(p) : \A h \in Holds(p) :
          \/ Rank(h) < Rank(r)
          \/ h = "logs" /\ r = "logs"
    /\ \A p \in Procs : "logs_counter" \in Holds(p) => Wants(p) = {}
    /\ \A S \in SUBSET Procs :
          S # {} => \E p \in S : \A q \in S : ~WaitsFor(p, q)

\* the error line of an oversize settings write is being stored: its
\* process holds the mutexes of the settings, of the ring and of the counter
C38_Witness ==
    \E p \in Procs :
        /\ Holds(p) = {"settings", "logs", "logs_counter"}
        /\ pc[p] = "inc_write"
        /\ \E q \in Procs : WaitsFor(q, p)


(* ----------------------------- log stream ----------------------------- *)

\* the elements of a sequence
Range(sq) == {sq[i] : i \in 1..Len(sq)}

\* json.dumps({k: v for k, v in log.items() if k != "levelname"}): module,
\* funcName, session_id and message are the same for every line logged
\* here, so that asctime with msecs and the process tell the texts apart
JsonKey(log) == [asctime |-> log.ts, process |-> log.by]

\* add_logs_to_client_buffer: buffer.append(...) for every log on
\* deque(maxlen=MAX_BUFFER_SIZE)
AddLogsToClientBuffer(buffer, logs) ==
    LastN(buffer \o [i \in 1..Len(logs) |-> JsonKey(logs[i])], MAX_BUFFER_SIZE)

\* a comparison of the records themselves
GetNewLogsByRecord(buffer, sent, current_logs) ==
    LET new(log) == log.id \notin Range(sent)
    IN  SelectSeq(current_logs, new)

\* get_new_logs: [log for log in current_logs if log_json not in buffer]
GetNewLogs(buffer, sent, current_logs) ==
    LET new(log) == JsonKey(log) \notin Range(buffer)
    IN  SelectSeq(current_logs, new)

\* the ids of a list of records
IdsOf(logs) == [i \in 1..Len(logs) |-> logs[i].id]

\* the stream of process p has been opened and has not ended
Connected(p) == client[p].at \notin {"off", "ended"}

\* fewer than MAX_BUFFER_SIZE records have been appended since the stream
\* of p read the ring
Paced(p) == Len(stored["logs"]) - client[p].seen < MAX_BUFFER_SIZE

\* what a stream step leaves alone
StreamFrame ==
    /\ UNCHANGED <<seg, initLock, creator>>
    /\ UNCHANGED <<memVars, localVars, histVars, lifeVars>>
    /\ UNCHANGED <<osVars, pidVars, closed, emitVars, guardVars, cut, confVars, packed, keyVars>>

\* the lock a call of process p leaves when it returns from `with LOCK:`
Unlocked(p, here, r) ==
    IF pc[p] = here THEN [dataLock EXCEPT ![r] = NoProc] ELSE dataLock

\* logger.<level>(...) of the application; the entry is the id-th one and
\* carries the time and the process of the call
LogRecordCall(p) ==
    /\ pc[p] = "idle"
    /\ nOps < MaxRecords
    /\ nOps' = nOps + 1
    /\ arg' = [arg EXCEPT ![p] = [id |-> nOps + 1, ts |-> Now(nOps + 1), by |-> p]]
    /\ pc' = [pc EXCEPT ![p] = "ap_init"]
    /\ op' = [op EXCEPT ![p] = "add_log"]
    /\ UNCHANGED <<seg, initLock, dataLock, tries, hnd, creator, exc, ret>>
    /\ UNCHANGED <<memVars, localVars, stored, okAppends, incs, incOk, written, lifeVars, extVars>>

\* get_log_stream: create_client_data(session_id); "--- Stream connected ---";
\* previous_logs = get_logs_from_shm(MAX_BUFFER_SIZE)
StreamConnect(p) ==
    /\ pc[p] = "idle"
    /\ client[p].at = "off"
    /\ Cardinality({q \in Procs : client[q].at # "off"}) < MaxStreams
    /\ client' = [client EXCEPT ![p] =
                     [ZeroClient EXCEPT !.at = "previous",
                                        !.base = Len(stored["logs"]),
                                        !.seen = Len(stored["logs"])]]
    /\ op' = [op EXCEPT ![p] = "get_logs"]
    /\ arg' = [arg EXCEPT ![p] = MAX_BUFFER_SIZE]
    /\ pc' = [pc EXCEPT ![p] = "rg_init"]
    /\ UNCHANGED <<dataLock, tries, hnd, exc, ret>>
    /\ StreamFrame

\* the list get_logs_from_shm hands to the stream: read under the lock, or
\* [] of a call without handle
LogsRead(p) ==
    IF pc[p] = "rg_read" THEN ReadLogs(ring["logs"], arg[p]) ELSE ret[p]

\* a call of process p is at its read under the lock, or has returned
\* without an exception
Answered(p, read, done) ==
    \/ pc[p] = read
    \/ pc[p] = done /\ exc[p] = "none"

\* add_logs_to_client_buffer(previous_logs); send_logs(previous_logs[-limit:]);
\* "--- Previous logs loaded ---"; shm_shutdown, _ = initialize_shutdown_shm(False)
StreamPrevious(p) ==
    /\ client[p].at = "previous"
    /\ Answered(p, "rg_read", "rg_ret")
    /\ client' = [client EXCEPT ![p].at = "shutdown_shm",
                                ![p].buffer = AddLogsToClientBuffer(<<>>, LogsRead(p)),
                                ![p].sent = IdsOf(LogsRead(p)),
                                ![p].seen = Len(stored["logs"])]
    /\ dataLock' = Unlocked(p, "rg_read", "logs")
    /\ op' = [op EXCEPT ![p] = "initialize_shutdown_shm"]
    /\ arg' = [arg EXCEPT ![p] = 0]
    /\ hnd' = [hnd EXCEPT ![p] = ZeroHnd]
    /\ tries' = [tries EXCEPT ![p] = 0]
    /\ ret' = [ret EXCEPT ![p] = None]
    /\ pc' = [pc EXCEPT ![p] = "st_init"]
    /\ UNCHANGED exc
    /\ StreamFrame

StInitAcquire(p) == ShmInitAcquire(p, "st_init", "st_init_in", "shutdown")
StInitTimeout(p) == ShmInitTimeout(p, "st_init", "shutdown", "shm", "st_got")
StInitAttach(p) ==
    ShmInitAttach(p, "st_init_in", "shutdown", FALSE, "shm",
                  "st_got", "st_got", "st_got")

\* shm_logs_counter, _ = initialize_logs_counter_shm(False);
\* client_data[session_id]["counter"] = get_logs_counter(shm_logs_counter)
StreamGotShutdown(p) ==
    /\ client[p].at = "shutdown_shm"
    /\ pc[p] = "st_got"
    /\ client' = [client EXCEPT ![p].at = "first", ![p].shm_shutdown = hnd[p].shm]
    /\ op' = [op EXCEPT ![p] = "get_counter"]
    /\ hnd' = [hnd EXCEPT ![p] = ZeroHnd]
    /\ tries' = [tries EXCEPT ![p] = 0]
    /\ pc' = [pc EXCEPT ![p] = "get_init"]
    /\ UNCHANGED <<dataLock, exc, ret, arg>>
    /\ StreamFrame

\* the value get_logs_counter hands to the stream
CounterRead(p) == IF pc[p] = "get_read" THEN counter ELSE ret[p]

\* get_shutdown_flag(shm_shutdown) is entered with the handle of the stream
CallGetShutdownFlag(p) ==
    /\ op' = [op EXCEPT ![p] = "get_shutdown_flag"]
    /\ hnd' = [hnd EXCEPT ![p] = [ZeroHnd EXCEPT !.shm = client[p].shm_shutdown]]
    /\ tries' = [tries EXCEPT ![p] = 0]
    /\ ret' = [ret EXCEPT ![p] = None]
    /\ pc' = [pc EXCEPT ![p] = "gs_lock"]

\* client_data[session_id]["counter"] = <value>; `while True:` is entered
\* with get_shutdown_flag(shm_shutdown)
StreamFirst(p) ==
    /\ client[p].at = "first"
    /\ Answered(p, "get_read", "get_ret")
    /\ client' = [client EXCEPT ![p].at = "flag",
                                ![p].counter = CounterRead(p),
                                ![p].shm_logs_counter = hnd[p].shm]
    /\ dataLock' = Unlocked(p, "get_read", "logs_counter")
    /\ CallGetShutdownFlag(p)
    /\ UNCHANGED <<exc, arg>>
    /\ StreamFrame

\* a loop that never looks at the flag
TruthyNever(value) == FALSE

\* `if <int>:` takes the branch for every value but 0
Truthy(value) == value # 0

\* if get_shutdown_flag(shm_shutdown): "--- Stream stopped by server
\* shutdown ---"; break; finally: del client_data[session_id]
StreamShutdown(p) ==
    /\ client[p].at = "flag"
    /\ pc[p] = "gs_read"
    /\ hnd[p].shm # None
    /\ Truthy(scalar["shutdown"][hnd[p].shm])
    /\ client' = [client EXCEPT ![p].at = "ended", ![p].last = "shutdown",
                                ![p].buffer = <<>>]
    /\ dataLock' = [dataLock EXCEPT !["shutdown"] = NoProc]
    /\ op' = [op EXCEPT ![p] = "none"]
    /\ hnd' = [hnd EXCEPT ![p] = ZeroHnd]
    /\ pc' = [pc EXCEPT ![p] = "idle"]
    /\ UNCHANGED <<tries, exc, ret, arg>>
    /\ StreamFrame

\* get_shutdown_flag(None): shm.buf raises AttributeError inside `with
\* LOCK:`, get_shutdown_flag re-raises it
StreamFlagNone(p) ==
    /\ client[p].at = "flag"
    /\ pc[p] = "gs_read"
    /\ hnd[p].shm = None
    /\ exc' = [exc EXCEPT ![p] = BufOf(None)]
    /\ dataLock' = [dataLock EXCEPT !["shutdown"] = NoProc]
    /\ pc' = [pc EXCEPT ![p] = "gs_ret"]
    /\ UNCHANGED <<op, tries, hnd, ret, arg, client>>
    /\ StreamFrame

\* the flag is 0 (and has_permission holds):
\* current_counter = get_logs_counter(shm_logs_counter)
StreamFlagClear(p) ==
    /\ client[p].at = "flag"
    /\ pc[p] = "gs_read"
    /\ hnd[p].shm # None
    /\ ~Truthy(scalar["shutdown"][hnd[p].shm])
    /\ client' = [client EXCEPT ![p].at = "counter"]
    /\ dataLock' = [dataLock EXCEPT !["shutdown"] = NoProc]
    /\ op' = [op EXCEPT ![p] = "get_counter"]
    /\ hnd' = [hnd EXCEPT ![p] = [ZeroHnd EXCEPT !.shm = client[p].shm_logs_counter]]
    /\ pc' = [pc EXCEPT ![p] = IF client[p].shm_logs_counter = None
                               THEN "get_cold" ELSE "get_lock"]
    /\ UNCHANGED <<tries, exc, ret, arg>>
    /\ StreamFrame

\* if current_counter != client_data[session_id]["counter"]:
\* current_logs = get_logs_from_shm(MAX_BUFFER_SIZE)
StreamChanged(p) ==
    /\ client[p].at = "counter"
    /\ Answered(p, "get_read", "get_ret")
    /\ CounterRead(p) # client[p].counter
    /\ client' = [client EXCEPT ![p].at = "logs", ![p].cur = CounterRead(p)]
    /\ dataLock' = Unlocked(p, "get_read", "logs_counter")
    /\ op' = [op EXCEPT ![p] = "get_logs"]
    /\ arg' = [arg EXCEPT ![p] = MAX_BUFFER_SIZE]
    /\ hnd' = [hnd EXCEPT ![p] = ZeroHnd]
    /\ ret' = [ret EXCEPT ![p] = None]
    /\ pc' = [pc EXCEPT ![p] = "rg_init"]
    /\ UNCHANGED <<tries, exc>>
    /\ StreamFrame

\* the stream of process p goes to `await asyncio.sleep(...)`
Sleep(p) ==
    /\ op' = [op EXCEPT ![p] = "none"]
    /\ arg' = [arg EXCEPT ![p] = 0]
    /\ hnd' = [hnd EXCEPT ![p] = ZeroHnd]
    /\ ret' = [ret EXCEPT ![p] = None]
    /\ pc' = [pc EXCEPT ![p] = "idle"]

\* the counter is the one seen last: await asyncio.sleep(...)
StreamSame(p) ==
    /\ client[p].at = "counter"
    /\ Answered(p, "get_read", "get_ret")
    /\ CounterRead(p) = client[p].counter
    /\ client' = [client EXCEPT ![p].at = "sleep"]
    /\ dataLock' = Unlocked(p, "get_read", "logs_counter")
    /\ Sleep(p)
    /\ UNCHANGED <<tries, exc>>
    /\ StreamFrame

\* new_logs = get_new_logs(session_id, current_logs); send_logs(new_logs);
\* client_data[session_id]["counter"] = current_counter; sleep
StreamLogs(p) ==
    /\ client[p].at = "logs"
    /\ Answered(p, "rg_read", "rg_ret")
    /\ LET new_logs == GetNewLogs(client[p].buffer, client[p].sent, LogsRead(p))
       IN  client' = [client EXCEPT
                         ![p].at = "sleep",
                         ![p].buffer = AddLogsToClientBuffer(@, new_logs),
                         ![p].sent = @ \o IdsOf(new_logs),
                         ![p].counter = client[p].cur,
                         ![p].paced = @ /\ Paced(p),
                         ![p].seen = Len(stored["logs"])]
    /\ dataLock' = Unlocked(p, "rg_read", "logs")
    /\ Sleep(p)
    /\ UNCHANGED <<tries, exc>>
    /\ StreamFrame

\* the sleep is over: the next iteration starts with get_shutdown_flag
StreamWake(p) ==
    /\ client[p].at = "sleep"
    /\ pc[p] = "idle"
    /\ client' = [client EXCEPT ![p].at = "flag"]
    /\ CallGetShutdownFlag(p)
    /\ UNCHANGED <<dataLock, exc, arg>>
    /\ StreamFrame

\* an exception of a store call leaves the loop: `except Exception as e:
\* logger.error(...)`; finally: del client_data[session_id]
StreamError(p) ==
    /\ Connected(p)
    /\ pc[p] \in {"rg_ret", "get_ret", "gs_ret"}
    /\ exc[p] # "none"
    /\ client' = [client EXCEPT ![p].at = "ended", ![p].last = "error",
                                ![p].buffer = <<>>]
    /\ exc' = [exc EXCEPT ![p] = "none"]
    /\ Sleep(p)
    /\ UNCHANGED <<dataLock, tries>>
    /\ StreamFrame

(* ------------- specification: a log stream and its writers ------------- *)

\* the steps of the code of process p; every shm_initialize gets its handle
StreamRuns(p) ==
    \/ ApInitAcquire(p)
    \/ ApInitAttach(p)
    \/ ApLock(p)
    \/ ApLockTimeout(p)
    \/ IncInitAcquire(p)
    \/ IncInitAttach(p)
    \/ IncLock(p)
    \/ IncLockTimeout(p)
    \/ IncRead(p)
    \/ IncWrite(p)
    \/ IncUnlock(p)
    \/ AddLogAfterInc(p)
    \/ ApHdr(p)
    \/ ApSlot(p)
    \/ ApCount(p)
    \/ ApNext(p)
    \/ ApReturn(p)
    \/ RgInitAcquire(p)
    \/ RgInitAttach(p)
    \/ RgLock(p)
    \/ RgLockTimeout(p)
    \/ StreamPrevious(p)
    \/ StInitAcquire(p)
    \/ StInitAttach(p)
    \/ StreamGotShutdown(p)
    \/ GetCounterInitAcquire(p)
    \/ GetCounterInitAttach(p)
    \/ GetCounterLock(p)
    \/ GetCounterLockTimeout(p)
    \/ StreamFirst(p)
    \/ GsLock(p)
    \/ StreamFlagClear(p)
    \/ StreamChanged(p)
    \/ StreamSame(p)
    \/ StreamLogs(p)
    \/ StreamWake(p)
    \/ StreamError(p)

NextStream ==
    \E p \in Procs :
        \/ LogRecordCall(p)
        \/ StreamConnect(p)
        \/ StreamRuns(p)

\* every step of the code changes the position of its process or the count
\* of its attempts; a process that can take a step takes one
SpecStream ==
    /\ InitRunning
    /\ [][NextStream]_vars
    /\ \A p \in Procs : WF_<<pc, tries>>(StreamRuns(p))

\* no element occurs twice
NoRepeat(sq) == \A i, j \in 1..Len(sq) : sq[i] = sq[j] => i = j

\* the stream of p sleeps, the counter is the one it saw last and no line
\* is being logged: unless another line is logged, every later poll of the
\* stream finds the counter unchanged and sends nothing
Settled(p) ==
    /\ client[p].at = "sleep"
    /\ client[p].counter = counter
    /\ \A q \in Procs : op[q] # "add_log"

(* C34: as long as fewer than capacity records are appended between two
   ring reads of a stream, no record is sent to the stream twice and every
   record appended while the stream is open is sent to it: a stream that has
   caught up with the counter has sent every such record, so that none waits
   for a line that may never be logged. *)
C34_EveryRecordSentOnce ==
    \A p \in Procs :
        (client[p].paced /\ Paced(p)) =>
            /\ NoRepeat(client[p].sent)
            /\ Settled(p) =>
                  \A i \in 1..Len(stored["logs"]) :
                      client[p].base < i =>
                          stored["logs"][i].id \in Range(client[p].sent)


(* ------------ specification: log streams and the shut-down ------------- *)

NextHalt ==
    \E p \in Procs :
        \/ StreamConnect(p)
        \/ RgInitAcquire(p)
        \/ RgInitAttach(p)
        \/ RgLock(p)
        \/ StreamPrevious(p)
        \/ StInitAcquire(p)
        \/ StInitAttach(p)
        \/ StreamGotShutdown(p)
        \/ GetCounterInitAcquire(p)
        \/ GetCounterInitAttach(p)
        \/ GetCounterLock(p)
        \/ StreamFirst(p)
        \/ GsLock(p)
        \/ GsLockTimeout(p)
        \/ StreamShutdown(p)
        \/ StreamFlagNone(p)
        \/ StreamFlagClear(p)
        \/ StreamSame(p)
        \/ StreamWake(p)
        \/ StreamError(p)
        \/ LifeStop(p)
        \/ SsLock(p)
        \/ SsLockTimeout(p)
        \/ SsWrite(p)
        \/ CleanClose(p)
        \/ CleanUnlink(p)

SpecHalt == InitRunning /\ [][NextHalt]_vars

\* set_shutdown_flag of process q has returned: q is in its clean-up calls
\* or past them
HasSetFlag(q) == pc[q] \in {"cl_close", "cl_unlink", "stopped"}

\* the stream of process p reads the flag through its handle
PollsFlag(p) ==
    /\ client[p].at = "flag"
    /\ pc[p] = "gs_read"
    /\ pc'[p] # "gs_read"
    /\ hnd[p].shm # None

\* process p takes a step of one of its clean-up calls
CleansUp(p) ==
    /\ pc[p] \in {"cl_close", "cl_unlink"}
    /\ <<pc[p], arg[p]>> # <<pc'[p], arg'[p]>>

(* C35: once set_shutdown_flag of some process has returned, a log stream
   of any process that reads the flag sends the shut-down message and ends;
   and every step of a process's clean-up calls (close, unlink) is taken
   with the flag already written by that process. *)
C35_FlagStopsStreams ==
    [][\A p \in Procs :
          /\ (PollsFlag(p) /\ \E q \in Procs : HasSetFlag(q)) =>
                /\ client'[p].at = "ended"
                /\ client'[p].last = "shutdown"
          /\ CleansUp(p) =>
                /\ life[p]["shutdown"].shm # None
                /\ scalar["shutdown"][life[p]["shutdown"].shm] = 1]_vars

\* a stream has gone through its loop, another process has set the flag and
\* closed or unlinked a region, and the stream has ended with the shut-down
\* message
C35_Witness ==
    \E p, q \in Procs :
        /\ p # q
        /\ client[p].last = "shutdown"
        /\ client[p].at = "ended"
        /\ HasSetFlag(q)
        /\ <<q, "shutdown">> \in closed

====
